---------------------------- MODULE Spec2Model ----------------------------
(***************************************************************************)
(* Turn-resolution engine of "Silent Charges" (src/game.js): grid model,   *)
(* A* distance oracle, guard target selection, movement arbitration,       *)
(* blast resolution and the win/lose state machine.                        *)
(***************************************************************************)
EXTENDS Integers, Sequences, FiniteSets, TLC

VARIABLES
    config,         \* this.level.config (the options the model varies)
    guards,         \* this.level.guards : array of Guard, guards[i].id = i-1
    targets,        \* this.level.targets: array of Target
    bombs,          \* this.bombs        : array of Bomb
    turnIndex,      \* this.turnIndex
    gameState,      \* this.gameState
    bombIdCounter,  \* this.bombIdCounter
    turnLog,        \* history: the locals of simulateTurn / resolveMovementConflicts
                    \* and the bombs it started from, when it was the latest
                    \* handler to run, empty otherwise
    gameHistory,    \* this.gameHistory  : array of saved states
    editor,         \* the LevelEditor object of the level editor page
    last,           \* history: the latest handler, its result, the gameState it saw
    call            \* a single call of a Pathfinder or blast method on a level of
                    \* its own: the level, the arguments and the value returned

vars == <<config, guards, targets, bombs, turnIndex, gameState, bombIdCounter, gameHistory,
          editor, turnLog, last, call>>

-----------------------------------------------------------------------------
(* Bounds of the exploration *)

MaxTurn == 3          \* endTurn is not explored beyond this turn index
ArbGuards == 3        \* number of guards in the arbiter-only specification
MaxPathWalls == 6     \* walls in a level of the pathfinder-only specification
MaxBlastWalls == 2    \* walls in a level of the blast-only specification
MaxBlastRange == 4    \* largest config.blastRange of the blast-only specification
MaxStatedRadius == 2  \* largest hearingRadius a level descriptor states
MaxEditorOps == 4     \* paint, export and import operations of one editor session

-----------------------------------------------------------------------------
(* Constants and enums, game.js 8-23 *)

FLOOR == 0
WALL == 1
VOID == 2

TICKING == "ticking"
EXPLODING == "exploding"

PLAYING == "playing"
WON == "won"
LOST == "lost"

(* The level the model loads.  gridSize x gridSize terrain, row-major: a   *)
(* U-shaped corridor around a wall, and a one-tile pocket no path reaches. *)
(*     x: 0 1 2 3                                                          *)
(*  y=0   F F F W                                                          *)
(*  y=1   F W F V                                                          *)
(*  y=2   F F W F                                                          *)
(*  y=3   V V V V                                                          *)
gridSize == 4
grid == << <<0, 0, 0, 1>>,
           <<0, 1, 0, 2>>,
           <<0, 0, 1, 0>>,
           <<2, 2, 2, 2>> >>

blastRange == 2
memoryTTL == 1
maxActiveBombs == 2
defaultHearingRadius == 8

-----------------------------------------------------------------------------
(* Vec *)

Vec(x, y) == [x |-> x, y |-> y]

Abs(n) == IF n < 0 THEN -n ELSE n

manhattanDistance(a, b) == Abs(a.x - b.x) + Abs(a.y - b.y)

\* null / undefined of the source
Null == [null |-> TRUE]
NoId == -1

\* every position a search or a blast can name, in and out of bounds
Positions == {Vec(x, y) : x \in -1..gridSize, y \in -1..gridSize}

\* the positions a click names: every tile of the grid, and one position just
\* outside each edge
ClickPositions ==
    {Vec(x, y) : x \in 0..(gridSize - 1), y \in 0..(gridSize - 1)}
      \cup {Vec(-1, 0), Vec(gridSize, 0), Vec(0, -1), Vec(0, gridSize)}

-----------------------------------------------------------------------------
(* Level: grid queries.  lv is the Level object a method is called on: its *)
(* grid and the config entries the queries read.                           *)

\* the level of the game
gameLevel == [gridSize |-> gridSize, grid |-> grid, blastRange |-> blastRange]

isValidPosition(lv, pos) ==
    pos.x >= 0 /\ pos.x < lv.gridSize /\ pos.y >= 0 /\ pos.y < lv.gridSize

tileAt(lv, pos) == lv.grid[pos.y + 1][pos.x + 1]

isPassableAnyTile(lv, pos) == isValidPosition(lv, pos)

isPassable(lv, pos) ==
    IF ~isValidPosition(lv, pos) THEN FALSE ELSE tileAt(lv, pos) = FLOOR

FloorCells == {p \in Positions : isPassable(gameLevel, p)}

-----------------------------------------------------------------------------
(* Pathfinder *)

\* "Infinity": larger than every path length on the grid
Infinity == gridSize * gridSize

directionsNoWest == <<Vec(0, -1), Vec(1, 0), Vec(0, 1)>>

directions == <<Vec(0, -1), Vec(1, 0), Vec(0, 1), Vec(-1, 0)>>

\* the comparator of openSet.sort: a sorts before b
openBefore(a, b, end) ==
    IF a.f # b.f THEN a.f < b.f
    ELSE IF manhattanDistance(a.pos, end) # manhattanDistance(b.pos, end)
         THEN manhattanDistance(a.pos, end) < manhattanDistance(b.pos, end)
    ELSE IF a.pos.y # b.pos.y THEN a.pos.y < b.pos.y
    ELSE a.pos.x < b.pos.x

\* openSet.sort(...); openSet.shift(): positions are unique in openSet and the
\* comparator is total on distinct positions, so the head is the minimum
openHead(openSet, end) ==
    CHOOSE a \in openSet : \A b \in openSet \ {a} : openBefore(a, b, end)

\* gScore.get(key) || Infinity   (a stored 0 is falsy)
gScoreOf(gScore, pos) ==
    IF pos \in DOMAIN gScore /\ gScore[pos] # 0 THEN gScore[pos] ELSE Infinity

RECURSIVE pdNeighbors(_, _, _, _, _, _)
pdNeighbors(lv, i, st, current, closedSet, end) ==
    IF i > Len(directions) THEN st
    ELSE LET neighbor == Vec(current.pos.x + directions[i].x,
                             current.pos.y + directions[i].y)
             tentativeG == current.g + 1
         IN IF ~isPassable(lv, neighbor) \/ neighbor \in closedSet
            THEN pdNeighbors(lv, i + 1, st, current, closedSet, end)
            ELSE IF tentativeG < gScoreOf(st.gScore, neighbor)
            THEN pdNeighbors(lv, i + 1,
                   [gScore  |-> (neighbor :> tentativeG) @@ st.gScore,
                    openSet |-> {o \in st.openSet : o.pos # neighbor} \cup
                                {[pos |-> neighbor, g |-> tentativeG,
                                  f |-> tentativeG + manhattanDistance(neighbor, end)]}],
                   current, closedSet, end)
            ELSE pdNeighbors(lv, i + 1, st, current, closedSet, end)

RECURSIVE pdLoop(_, _, _, _, _)
pdLoop(lv, openSet, closedSet, gScore, end) ==
    IF openSet = {} THEN Infinity
    ELSE LET current == openHead(openSet, end)
         IN IF current.pos = end THEN current.g
            ELSE LET closed2 == closedSet \cup {current.pos}
                     st == pdNeighbors(lv, 1, [gScore |-> gScore,
                                           openSet |-> openSet \ {current}],
                                       current, closed2, end)
                 IN pdLoop(lv, st.openSet, closed2, st.gScore, end)

getPathDistanceHeuristic(lv, start, end) ==
    IF isPassable(lv, end) THEN manhattanDistance(start, end) ELSE Infinity

getPathDistance(lv, start, end) ==
    IF start = end THEN 0
    ELSE pdLoop(lv, {[pos |-> start, g |-> 0, f |-> manhattanDistance(start, end)]},
                {}, (start :> 0), end)

RECURSIVE nsNeighbors(_, _, _, _, _, _)
nsNeighbors(lv, i, st, current, closedSet, target) ==
    IF i > Len(directions) THEN st
    ELSE LET neighbor == Vec(current.pos.x + directions[i].x,
                             current.pos.y + directions[i].y)
             tentativeG == current.g + 1
         IN IF ~isPassable(lv, neighbor) \/ neighbor \in closedSet
            THEN nsNeighbors(lv, i + 1, st, current, closedSet, target)
            ELSE IF tentativeG < gScoreOf(st.gScore, neighbor)
            THEN nsNeighbors(lv, i + 1,
                   [gScore  |-> (neighbor :> tentativeG) @@ st.gScore,
                    openSet |-> {o \in st.openSet : o.pos # neighbor} \cup
                                {[pos |-> neighbor, g |-> tentativeG,
                                  f |-> tentativeG + manhattanDistance(neighbor, target),
                                  parent |-> current.pos]}],
                   current, closedSet, target)
            ELSE nsNeighbors(lv, i + 1, st, current, closedSet, target)

\* while (pathNode.parent && !pathNode.parent.pos.equals(start)) pathNode = pathNode.parent
\* parentOf maps every expanded node to the node that pushed it
nsFirstStepNoWalk(pos, parent, parentOf, start) == pos

RECURSIVE nsFirstStep(_, _, _, _)
nsFirstStep(pos, parent, parentOf, start) ==
    IF parent # Null /\ parent # start
    THEN nsFirstStep(parent, parentOf[parent], parentOf, start)
    ELSE pos

RECURSIVE nsLoop(_, _, _, _, _, _, _)
nsLoop(lv, openSet, closedSet, gScore, parentOf, start, target) ==
    IF openSet = {} THEN start
    ELSE LET current == openHead(openSet, target)
         IN IF current.pos = target
            THEN nsFirstStep(current.pos, current.parent, parentOf, start)
            ELSE LET closed2 == closedSet \cup {current.pos}
                     st == nsNeighbors(lv, 1, [gScore |-> gScore,
                                           openSet |-> openSet \ {current}],
                                       current, closed2, target)
                 IN nsLoop(lv, st.openSet, closed2, st.gScore,
                           (current.pos :> current.parent) @@ parentOf, start, target)

getNextStep(lv, start, target) ==
    IF start = target THEN start
    ELSE nsLoop(lv, {[pos |-> start, g |-> 0, f |-> manhattanDistance(start, target),
                  parent |-> Null]},
                {}, (start :> 0), <<>>, start, target)

\* Both searches are pure functions of the immutable terrain and are
\* recomputed on every call; the model tabulates them once per pair of tiles.
GridCells == {p \in Positions : isValidPosition(gameLevel, p)}

pathDistanceTable == [a \in GridCells |-> [b \in GridCells |-> getPathDistance(gameLevel, a, b)]]

nextStepTable == [a \in GridCells |-> [b \in GridCells |-> getNextStep(gameLevel, a, b)]]

\* this.pathfinder.getPathDistance(a, b) / this.pathfinder.getNextStep(a, b)
\* as the game calls them on its own level
pathDistance(a, b) == pathDistanceTable[a][b]

nextStepStayingPut(a, b) == a

nextStepStraightToTarget(a, b) == b

nextStep(a, b) == nextStepTable[a][b]

-----------------------------------------------------------------------------
(* Entities *)

newTarget(id, pos) == [id |-> id, pos |-> pos, destroyed |-> FALSE]

newBomb(id, pos, hasTimer) ==
    [id |-> id, pos |-> pos, hasTimer |-> hasTimer,
     timer |-> IF hasTimer THEN 3 ELSE 1, state |-> TICKING]

getNoiseLevelShifted(bomb) ==
    IF bomb.state = EXPLODING THEN 4
    ELSE IF ~bomb.hasTimer THEN 3
    ELSE 5 - bomb.timer

getNoiseLevel(bomb) ==
    IF bomb.state = EXPLODING THEN 4
    ELSE IF ~bomb.hasTimer THEN 3
    ELSE 4 - bomb.timer

cycleTimerCountdown(bomb) ==
    IF ~bomb.hasTimer THEN bomb
    ELSE [bomb EXCEPT !.timer = IF bomb.timer = 1 THEN 3 ELSE bomb.timer - 1]

cycleTimer(bomb) ==
    IF ~bomb.hasTimer THEN bomb
    ELSE [bomb EXCEPT !.timer = IF bomb.timer = 3 THEN 1 ELSE bomb.timer + 1]

newGuard(id, pos, hearingRadius) ==
    [id |-> id, pos |-> pos, hearingRadius |-> hearingRadius,
     memory |-> Null, targetPos |-> Null]

\* levelData.config of the levels the model loads: the untimed level allows
\* two placements per turn, the timed level one
levelConfigs == {[timersAllowed |-> FALSE, maxBombsPerTurn |-> 2, blastRange |-> blastRange],
                 [timersAllowed |-> TRUE, maxBombsPerTurn |-> 1, blastRange |-> blastRange]}

\* levelData.guards / levelData.targets of the level the model loads
levelGuards == <<[x |-> 1, y |-> 0, hearingRadius |-> 2],
                 [x |-> 0, y |-> 0, hearingRadius |-> 3]>>

levelTargets == <<[x |-> 1, y |-> 2]>>

\* a second level on the same grid: a wider blast, one guard with a longer
\* hearing radius, and two targets
wideBlastRange == 3

wideLevelConfigs ==
    {[timersAllowed |-> FALSE, maxBombsPerTurn |-> 2, blastRange |-> wideBlastRange],
     [timersAllowed |-> TRUE, maxBombsPerTurn |-> 1, blastRange |-> wideBlastRange]}

wideLevelGuards == <<[x |-> 1, y |-> 2, hearingRadius |-> 4]>>

wideLevelTargets == <<[x |-> 3, y |-> 2], [x |-> 0, y |-> 0]>>

\* Level.initializeFromData: ids are the array indexes; a missing or zero
\* hearingRadius falls back to the configured default
\* guardData.hearingRadius of a guard that states none (undefined)
undefinedRadius == -1

\* guardData.hearingRadius || this.config.defaultHearingRadius
initGuards(data) ==
    [i \in 1..Len(data) |->
        newGuard(i - 1, Vec(data[i].x, data[i].y),
                 IF data[i].hearingRadius # undefinedRadius /\ data[i].hearingRadius # 0
                 THEN data[i].hearingRadius
                 ELSE defaultHearingRadius)]

initTargets(data) ==
    [i \in 1..Len(data) |-> newTarget(i - 1, Vec(data[i].x, data[i].y))]

-----------------------------------------------------------------------------
(* Level: occupancy and placement *)

isOccupiedByTarget(pos) ==
    \E i \in 1..Len(targets) : ~targets[i].destroyed /\ targets[i].pos = pos

isOccupiedByGuard(pos) ==
    \E i \in 1..Len(guards) : guards[i].pos = pos

canPlaceBombOverTargets(pos) ==
    IF ~isValidPosition(gameLevel, pos) THEN FALSE
    ELSE IF tileAt(gameLevel, pos) # FLOOR THEN FALSE
    ELSE IF isOccupiedByGuard(pos) THEN FALSE
    ELSE TRUE

canPlaceBomb(pos) ==
    IF ~isValidPosition(gameLevel, pos) THEN FALSE
    ELSE IF tileAt(gameLevel, pos) # FLOOR THEN FALSE
    ELSE IF isOccupiedByTarget(pos) THEN FALSE
    ELSE IF isOccupiedByGuard(pos) THEN FALSE
    ELSE TRUE

-----------------------------------------------------------------------------
(* Blast *)

\* Math.round(a / b) for b > 0: halves round towards +Infinity
roundDiv(a, b) == (2 * a + b) \div (2 * b)

Max(a, b) == IF a >= b THEN a ELSE b

hasLineOfSightThroughWalls(lv, start, end) == TRUE

hasLineOfSight(lv, start, end) ==
    LET dx == end.x - start.x
        dy == end.y - start.y
        steps == Max(Abs(dx), Abs(dy))
    IN IF dx = 0 /\ dy = 0 THEN TRUE
       ELSE \A i \in 1..(steps - 1) :
              LET checkPos == Vec(roundDiv(start.x * steps + dx * i, steps),
                                  roundDiv(start.y * steps + dy * i, steps))
              IN ~(isValidPosition(lv, checkPos) /\ tileAt(lv, checkPos) = WALL)

\* the tiles in the order the two nested loops push them (x outer, y inner)
calculateCircularBlast(lv, bombPos, radius) ==
    LET side == 2 * radius + 1
        at(k) == Vec(bombPos.x - radius + ((k - 1) \div side),
                     bombPos.y - radius + ((k - 1) % side))
        inBlast(pos) ==
            /\ (pos.x - bombPos.x) * (pos.x - bombPos.x)
                 + (pos.y - bombPos.y) * (pos.y - bombPos.y) <= radius * radius
            /\ isValidPosition(lv, pos)
            /\ hasLineOfSight(lv, bombPos, pos)
    IN SelectSeq([k \in 1..(side * side) |-> at(k)], inBlast)

calculateBlastTiles(lv, bombPos) ==
    calculateCircularBlast(lv, bombPos, Max(1, lv.blastRange - 1))

Range(s) == {s[i] : i \in 1..Len(s)}

-----------------------------------------------------------------------------
(* Array.prototype.sort with a comparator: a stable sort.  cmp[<<a, b>>] is *)
(* the comparator's value; insertion after every element that is not       *)
(* greater keeps equal elements in their original order.                   *)

RECURSIVE insertSorted(_, _, _)
insertSorted(sorted, e, cmp) ==
    IF sorted = <<>> THEN <<e>>
    ELSE IF cmp[<<e, sorted[Len(sorted)]>>] < 0
         THEN Append(insertSorted(SubSeq(sorted, 1, Len(sorted) - 1), e, cmp),
                     sorted[Len(sorted)])
         ELSE Append(sorted, e)

RECURSIVE stableSort(_, _)
stableSort(seq, cmp) ==
    IF seq = <<>> THEN <<>>
    ELSE insertSorted(stableSort(SubSeq(seq, 1, Len(seq) - 1), cmp), seq[Len(seq)], cmp)

-----------------------------------------------------------------------------
(* simulateTurn, phase 1: tick bombs and collect noise sources *)

\* a noise source; list names the array the object was pushed to
source(pos, level, list) == [pos |-> pos, level |-> level, list |-> list]

timerAboveOneOrTwo(bomb) == bomb.timer > 2

\* if (bomb.timer > 1)
timerAboveOne(bomb) == bomb.timer > 1

RECURSIVE tickBombs(_, _)
tickBombs(i, acc) ==
    IF i > Len(acc.bombs) THEN acc
    ELSE LET bomb == acc.bombs[i]
         IN IF config.timersAllowed /\ bomb.hasTimer
            THEN IF timerAboveOne(bomb)
                 THEN LET ticked == [bomb EXCEPT !.timer = bomb.timer - 1]
                      IN tickBombs(i + 1,
                           [acc EXCEPT !.bombs[i] = ticked,
                                       !.tickingSources = Append(@,
                                           source(ticked.pos, getNoiseLevel(ticked), "ticking"))])
                 ELSE tickBombs(i + 1,
                           [acc EXCEPT !.bombs[i] = [bomb EXCEPT !.state = EXPLODING],
                                       !.tickingSources = Append(@,
                                           source(bomb.pos, getNoiseLevel(bomb), "ticking")),
                                       !.explodingSources = Append(@,
                                           source(bomb.pos, 4, "exploding"))])
            ELSE tickBombs(i + 1,
                           [acc EXCEPT !.bombs[i] = [bomb EXCEPT !.state = EXPLODING],
                                       !.explodingSources = Append(@,
                                           source(bomb.pos, 4, "exploding"))])

-----------------------------------------------------------------------------
(* chooseGuardTarget *)

isAudibleStrict(guard, pos) == pathDistance(guard.pos, pos) < guard.hearingRadius

\* distance <= guard.hearingRadius
isAudible(guard, pos) == pathDistance(guard.pos, pos) <= guard.hearingRadius

sourceCompareDistanceFirst(guard, a, b) ==
    LET distA == pathDistance(guard.pos, a.pos)
        distB == pathDistance(guard.pos, b.pos)
    IN IF distA # distB THEN distA - distB
       ELSE IF a.level # b.level THEN b.level - a.level
       ELSE IF a.pos.y # b.pos.y THEN a.pos.y - b.pos.y
       ELSE a.pos.x - b.pos.x

\* the comparator of audibleSources.sort
sourceCompare(guard, a, b) ==
    IF a.level # b.level THEN b.level - a.level
    ELSE LET distA == pathDistance(guard.pos, a.pos)
             distB == pathDistance(guard.pos, b.pos)
             isExplosionA == a.list = "exploding"
             isExplosionB == b.list = "exploding"
         IN IF distA # distB THEN distA - distB
            ELSE IF isExplosionA # isExplosionB THEN (IF isExplosionB THEN 1 ELSE -1)
            ELSE IF a.pos.y # b.pos.y THEN a.pos.y - b.pos.y
            ELSE a.pos.x - b.pos.x

chooseGuardTarget(guard, tickingSources, explodingSources) ==
    LET allSources == tickingSources \o explodingSources
        audibleSources == SelectSeq(allSources, LAMBDA s : isAudible(guard, s.pos))
        cmp == [pr \in Range(audibleSources) \X Range(audibleSources) |->
                    sourceCompare(guard, pr[1], pr[2])]
    IN IF Len(audibleSources) = 0 THEN Null
       ELSE stableSort(audibleSources, cmp)[1]

-----------------------------------------------------------------------------
(* simulateTurn, phase 2: target selection and proposals *)

memoryFreshStrict(guard, turn) ==
    guard.memory # Null /\ (turn - guard.memory.turnIndex) < memoryTTL

memoryFresh(guard, turn) ==
    guard.memory # Null /\ (turn - guard.memory.turnIndex) <= memoryTTL

decideGuardWithKeepingMemory(guard, target, turn) ==
    IF target # Null
    THEN [guard |-> [guard EXCEPT !.targetPos = target.pos],
          target |-> target,
          proposal |-> [guardId |-> guard.id,
                        destination |-> nextStep(guard.pos, target.pos)]]
    ELSE IF memoryFresh(guard, turn)
    THEN [guard |-> [guard EXCEPT !.targetPos = guard.memory.pos],
          target |-> Null,
          proposal |-> [guardId |-> guard.id,
                        destination |-> nextStep(guard.pos, guard.memory.pos)]]
    ELSE [guard |-> [guard EXCEPT !.targetPos = Null],
          target |-> Null,
          proposal |-> [guardId |-> guard.id, destination |-> guard.pos]]

\* one iteration of the loop over the guards: the guard as updated, the
\* chosen source and the proposal
decideGuardWith(guard, target, turn) ==
    IF target # Null
    THEN [guard |-> [guard EXCEPT !.memory = Null, !.targetPos = target.pos],
          target |-> target,
          proposal |-> [guardId |-> guard.id,
                        destination |-> nextStep(guard.pos, target.pos)]]
    ELSE IF memoryFresh(guard, turn)
    THEN [guard |-> [guard EXCEPT !.targetPos = guard.memory.pos],
          target |-> Null,
          proposal |-> [guardId |-> guard.id,
                        destination |-> nextStep(guard.pos, guard.memory.pos)]]
    ELSE [guard |-> [guard EXCEPT !.targetPos = Null],
          target |-> Null,
          proposal |-> [guardId |-> guard.id, destination |-> guard.pos]]

\* const target = this.chooseGuardTarget(guard, tickingSources, explodingSources)
decideGuard(guard, tickingSources, explodingSources, turn) ==
    decideGuardWith(guard, chooseGuardTarget(guard, tickingSources, explodingSources), turn)

-----------------------------------------------------------------------------
(* resolveMovementConflicts *)

\* destinationMap.get(key): the ids that proposed dest, in insertion order
claimantsOf(proposals, dest) ==
    LET sel == SelectSeq(proposals, LAMBDA p : p.destination = dest)
    IN [i \in 1..Len(sel) |-> sel[i].guardId]

\* this.level.guards.find(g => g.id === guardId)
findGuard(gs, guardId) ==
    gs[CHOOSE i \in 1..Len(gs) :
          gs[i].id = guardId /\ \A j \in 1..(i - 1) : gs[j].id # guardId]

\* proposals.get(guardId)
proposalOf(proposals, guardId) ==
    proposals[CHOOSE i \in 1..Len(proposals) : proposals[i].guardId = guardId].destination

\* destinationMap.has(k) ? destinationMap.get(k).find(id => id !== guardId) : null
firstOther(ids, guardId) ==
    IF \E i \in 1..Len(ids) : ids[i] # guardId
    THEN ids[CHOOSE i \in 1..Len(ids) :
                ids[i] # guardId /\ \A j \in 1..(i - 1) : ids[j] = guardId]
    ELSE NoId

\* if (occupyingGuardId): undefined, null and 0 are falsy
isTruthyId(id) == id # NoId /\ id # 0

isContestedOffByOne(claimants) == Len(claimants) > 2

\* if (claimants.length > 1)
isContested(claimants) == Len(claimants) > 1

mapSet(m, k, v) == (k :> v) @@ m

RECURSIVE resolveLoop(_, _, _, _)
resolveLoop(i, validMoves, gs, proposals) ==
    IF i > Len(proposals) THEN validMoves
    ELSE LET guardId == proposals[i].guardId
             destination == proposals[i].destination
             guard == findGuard(gs, guardId)
             claimants == claimantsOf(proposals, destination)
             occupyingGuardId == firstOther(claimantsOf(proposals, guard.pos), guardId)
         IN IF isContested(claimants)
            THEN resolveLoop(i + 1, mapSet(validMoves, guardId, guard.pos), gs, proposals)
            ELSE IF isTruthyId(occupyingGuardId)
                    /\ proposalOf(proposals, occupyingGuardId) = guard.pos
            THEN resolveLoop(i + 1,
                     mapSet(mapSet(validMoves, guardId, guard.pos),
                            occupyingGuardId, findGuard(gs, occupyingGuardId).pos),
                     gs, proposals)
            ELSE resolveLoop(i + 1, mapSet(validMoves, guardId, destination), gs, proposals)

\* the guards after "Apply valid moves"
resolveMovementConflicts(gs, proposals) ==
    LET validMoves == resolveLoop(1, <<>>, gs, proposals)
    IN [i \in 1..Len(gs) |->
          IF gs[i].id \in DOMAIN validMoves
          THEN [gs[i] EXCEPT !.pos = validMoves[gs[i].id]]
          ELSE gs[i]]

-----------------------------------------------------------------------------
(* simulateTurn, phases 4-6 *)

\* this.level as calculateBlastTiles reads it: the grid and config.blastRange
loadedLevel == [gameLevel EXCEPT !.blastRange = config.blastRange]

\* blastTiles.some(tile => tile.equals(pos)), over every exploding bomb
inSomeBlast(explodingBombs, pos) ==
    \E i \in 1..Len(explodingBombs) :
        pos \in Range(calculateBlastTiles(loadedLevel, explodingBombs[i].pos))

destroyTargetsAfresh(tgs, explodingBombs) ==
    [i \in 1..Len(tgs) |->
        [tgs[i] EXCEPT !.destroyed = inSomeBlast(explodingBombs, tgs[i].pos)]]

destroyTargets(tgs, explodingBombs) ==
    [i \in 1..Len(tgs) |->
        IF ~tgs[i].destroyed /\ inSomeBlast(explodingBombs, tgs[i].pos)
        THEN [tgs[i] EXCEPT !.destroyed = TRUE]
        ELSE tgs[i]]

guardCasualtyBeforeMovement(gs, explodingBombs) ==
    \E i \in 1..Len(guards) : inSomeBlast(explodingBombs, guards[i].pos)

guardCasualty(gs, explodingBombs) ==
    \E i \in 1..Len(gs) : inSomeBlast(explodingBombs, gs[i].pos)

explosionCompareColumnMajor(guard, a, b) ==
    LET distA == pathDistance(guard.pos, a.pos)
        distB == pathDistance(guard.pos, b.pos)
    IN IF distA # distB THEN distA - distB
       ELSE IF a.pos.x # b.pos.x THEN a.pos.x - b.pos.x
       ELSE a.pos.y - b.pos.y

\* the comparator of audibleExplosions.sort
explosionCompare(guard, a, b) ==
    LET distA == pathDistance(guard.pos, a.pos)
        distB == pathDistance(guard.pos, b.pos)
    IN IF distA # distB THEN distA - distB
       ELSE IF a.pos.y # b.pos.y THEN a.pos.y - b.pos.y
       ELSE a.pos.x - b.pos.x

updateMemoryOfOwnTile(guard, explodingSources, turn) ==
    IF \E k \in 1..Len(explodingSources) : isAudible(guard, explodingSources[k].pos)
    THEN [guard EXCEPT !.memory = [pos |-> guard.pos, turnIndex |-> turn]]
    ELSE IF guard.memory # Null /\ (turn - guard.memory.turnIndex) > memoryTTL
    THEN [guard EXCEPT !.memory = Null]
    ELSE guard

updateMemory(guard, explodingSources, turn) ==
    LET audibleExplosions == SelectSeq(explodingSources, LAMBDA e : isAudible(guard, e.pos))
        cmp == [pr \in Range(audibleExplosions) \X Range(audibleExplosions) |->
                    explosionCompare(guard, pr[1], pr[2])]
    IN IF Len(audibleExplosions) > 0
       THEN [guard EXCEPT !.memory =
                [pos |-> stableSort(audibleExplosions, cmp)[1].pos, turnIndex |-> turn]]
       ELSE IF guard.memory # Null /\ (turn - guard.memory.turnIndex) > memoryTTL
       THEN [guard EXCEPT !.memory = Null]
       ELSE guard

outcomeWinFirst(anyGuardKilled, tgs, state) ==
    IF \A i \in 1..Len(tgs) : tgs[i].destroyed THEN WON
    ELSE IF anyGuardKilled THEN LOST
    ELSE state

outcome(anyGuardKilled, tgs, state) ==
    IF anyGuardKilled THEN LOST
    ELSE IF \A i \in 1..Len(tgs) : tgs[i].destroyed THEN WON
    ELSE state

emptyLog ==
    [phase |-> "none", bombsBefore |-> <<>>, ticked |-> <<>>,
     tickingSources |-> <<>>, explodingSources |-> <<>>,
     chosen |-> <<>>, proposals |-> <<>>, startPos |-> <<>>,
     memoryBefore |-> <<>>, targetsBefore |-> <<>>, blast |-> {},
     anyGuardKilled |-> FALSE]

removeExplodedOfEvenId(bs) == SelectSeq(bs, LAMBDA b : b.state # EXPLODING \/ b.id % 2 = 1)

removeNothing(bs) == bs

\* this.bombs.filter(bomb => bomb.state !== BombState.EXPLODING)
removeExploded(bs) == SelectSeq(bs, LAMBDA b : b.state # EXPLODING)

\* phase 6 and the return: the new state and the locals the turn computed
simulateTurnPhase6(turn, ticked, decided, moved, explodingBombs, anyGuardKilled, tgs) ==
    [turnIndex |-> turn,
     bombs |-> removeExploded(ticked.bombs),
     guards |-> [i \in 1..Len(moved) |->
                   updateMemory(moved[i], ticked.explodingSources, turn)],
     targets |-> tgs,
     gameState |-> outcome(anyGuardKilled, tgs, gameState),
     log |-> [phase |-> "resolved",
              bombsBefore |-> bombs,
              ticked |-> ticked.bombs,
              tickingSources |-> ticked.tickingSources,
              explodingSources |-> ticked.explodingSources,
              chosen |-> [i \in 1..Len(guards) |-> decided[i].target],
              proposals |-> [i \in 1..Len(guards) |-> decided[i].proposal],
              startPos |-> [i \in 1..Len(guards) |-> guards[i].pos],
              memoryBefore |-> [i \in 1..Len(guards) |-> guards[i].memory],
              targetsBefore |-> targets,
              blast |-> UNION {Range(calculateBlastTiles(loadedLevel, explodingBombs[i].pos)) :
                                  i \in 1..Len(explodingBombs)},
              anyGuardKilled |-> anyGuardKilled]]

\* phase 4: the bombs that detonate destroy targets and catch guards where
\* the guards stand after the movement
simulateTurnPhase4(turn, ticked, decided, moved, explodingBombs) ==
    simulateTurnPhase6(turn, ticked, decided, moved, explodingBombs,
                       guardCasualty(moved, explodingBombs),
                       destroyTargets(targets, explodingBombs))

\* phase 3: the arbiter moves the guards
simulateTurnPhase3(turn, ticked, decided) ==
    simulateTurnPhase4(turn, ticked, decided,
        resolveMovementConflicts([i \in 1..Len(guards) |-> decided[i].guard],
                                 [i \in 1..Len(guards) |-> decided[i].proposal]),
        SelectSeq(ticked.bombs, LAMBDA b : b.state = EXPLODING))

\* phase 2: every guard picks a target and proposes a step
simulateTurnPhase2(turn, ticked) ==
    simulateTurnPhase3(turn, ticked,
        [i \in 1..Len(guards) |->
            decideGuard(guards[i], ticked.tickingSources, ticked.explodingSources, turn)])

\* the whole of simulateTurn, from phase 1 on
simulateTurn ==
    simulateTurnPhase2(turnIndex + 1,
        tickBombs(1, [bombs |-> bombs, tickingSources |-> <<>>,
                      explodingSources |-> <<>>]))

-----------------------------------------------------------------------------
(* Handlers *)

endTurnIgnoredWhenLost(state) == state = LOST

\* if (this.gameState !== GameState.PLAYING) return;
endTurnIgnored(state) == state # PLAYING

\* endTurn(): the handler's effect on the game and on the history variables
endTurn ==
    /\ UNCHANGED <<gameHistory, editor>>
    /\ IF endTurnIgnored(gameState)
       THEN /\ last' = [op |-> "endTurn", ret |-> "ignored", pre |-> gameState]
            /\ turnLog' = emptyLog
            /\ UNCHANGED <<config, guards, targets, bombs, turnIndex, gameState,
                           bombIdCounter>>
       ELSE /\ turnIndex < MaxTurn
            /\ \E r \in {simulateTurn} :
                  /\ turnIndex' = r.turnIndex
                  /\ bombs' = r.bombs
                  /\ guards' = r.guards
                  /\ targets' = r.targets
                  /\ gameState' = r.gameState
                  /\ turnLog' = r.log
            /\ last' = [op |-> "endTurn", ret |-> "resolved", pre |-> gameState]
            /\ UNCHANGED <<config, bombIdCounter>>

EndTurn == endTurn /\ UNCHANGED call

placeBombSpendingIds(pos) ==
    IF ~canPlaceBomb(pos) THEN [ret |-> FALSE, bombs |-> bombs, counter |-> bombIdCounter + 1]
    ELSE IF Len(bombs) >= maxActiveBombs
    THEN [ret |-> FALSE, bombs |-> bombs, counter |-> bombIdCounter + 1]
    ELSE IF Cardinality({i \in 1..Len(bombs) : bombs[i].turnPlaced = turnIndex})
              >= config.maxBombsPerTurn
    THEN [ret |-> FALSE, bombs |-> bombs, counter |-> bombIdCounter + 1]
    ELSE [ret |-> TRUE,
          bombs |-> Append(bombs,
                      newBomb(bombIdCounter, pos, config.timersAllowed)
                        @@ [turnPlaced |-> turnIndex]),
          counter |-> bombIdCounter + 1]

placeBombWithoutActiveCap(pos) ==
    IF ~canPlaceBomb(pos) THEN [ret |-> FALSE, bombs |-> bombs, counter |-> bombIdCounter]
    ELSE IF Cardinality({i \in 1..Len(bombs) : bombs[i].turnPlaced = turnIndex})
              >= config.maxBombsPerTurn
    THEN [ret |-> FALSE, bombs |-> bombs, counter |-> bombIdCounter]
    ELSE [ret |-> TRUE,
          bombs |-> Append(bombs,
                      newBomb(bombIdCounter, pos, config.timersAllowed)
                        @@ [turnPlaced |-> turnIndex]),
          counter |-> bombIdCounter + 1]

\* placeBomb(pos): the bombs and the counter after the call, and its result
placeBomb(pos) ==
    IF ~canPlaceBomb(pos) THEN [ret |-> FALSE, bombs |-> bombs, counter |-> bombIdCounter]
    ELSE IF Len(bombs) >= maxActiveBombs
    THEN [ret |-> FALSE, bombs |-> bombs, counter |-> bombIdCounter]
    ELSE IF Cardinality({i \in 1..Len(bombs) : bombs[i].turnPlaced = turnIndex})
              >= config.maxBombsPerTurn
    THEN [ret |-> FALSE, bombs |-> bombs, counter |-> bombIdCounter]
    ELSE [ret |-> TRUE,
          bombs |-> Append(bombs,
                      newBomb(bombIdCounter, pos, config.timersAllowed)
                        @@ [turnPlaced |-> turnIndex]),
          counter |-> bombIdCounter + 1]

\* this.bombs.find(bomb => bomb.pos.equals(clickPos)): its index, 0 if none
findBombAt(pos) ==
    IF \E i \in 1..Len(bombs) : bombs[i].pos = pos
    THEN CHOOSE i \in 1..Len(bombs) :
            bombs[i].pos = pos /\ \A j \in 1..(i - 1) : bombs[j].pos # pos
    ELSE 0

HandleCanvasClick(clickPos) ==
    /\ UNCHANGED <<call, gameHistory, editor>>
    /\ turnLog' = emptyLog
    /\ IF gameState # PLAYING
       THEN /\ last' = [op |-> "click", ret |-> "ignored", pre |-> gameState]
            /\ UNCHANGED <<config, guards, targets, bombs, turnIndex, gameState,
                           bombIdCounter>>
       ELSE IF config.timersAllowed /\ findBombAt(clickPos) # 0
               /\ bombs[findBombAt(clickPos)].hasTimer
       THEN /\ bombs' = [bombs EXCEPT ![findBombAt(clickPos)] = cycleTimer(@)]
            /\ last' = [op |-> "click", ret |-> "cycled", pre |-> gameState]
            /\ UNCHANGED <<config, guards, targets, turnIndex, gameState,
                           bombIdCounter>>
       ELSE LET r == placeBomb(clickPos)
            IN /\ bombs' = r.bombs
               /\ bombIdCounter' = r.counter
               /\ last' = [op |-> "click",
                           ret |-> IF r.ret THEN "placed" ELSE "rejected",
                           pre |-> gameState]
               /\ UNCHANGED <<config, guards, targets, turnIndex, gameState>>

\* the history after saveGameState: the state is pushed and the history is
\* kept to its latest historyLimit entries
historyLimit == 20

saveGameState(history, bs, gs, tgs, turn, state) ==
    LET pushed == Append(history, [bombs |-> bs, guards |-> gs, targets |-> tgs,
                                   turnIndex |-> turn, gameState |-> state])
    IN IF Len(pushed) > historyLimit THEN Tail(pushed) ELSE pushed

\* if (this.gameHistory.length <= 1) return;
undoIgnored(history) == Len(history) <= 1

\* the state undo restores from the saved state previousState
undoRestore(previousState) ==
    [bombs |-> previousState.bombs,
     guards |-> [i \in 1..Len(guards) |->
                   [guards[i] EXCEPT !.pos = previousState.guards[i].pos,
                                     !.memory = previousState.guards[i].memory,
                                     !.targetPos = Null]],
     targets |-> [i \in 1..Len(targets) |->
                    [targets[i] EXCEPT !.destroyed = previousState.targets[i].destroyed]],
     turnIndex |-> previousState.turnIndex,
     gameState |-> previousState.gameState]

Undo ==
    /\ UNCHANGED <<config, bombIdCounter, call, editor>>
    /\ turnLog' = emptyLog
    /\ IF undoIgnored(gameHistory)
       THEN /\ last' = [op |-> "undo", ret |-> "ignored", pre |-> gameState]
            /\ UNCHANGED <<guards, targets, bombs, turnIndex, gameState, gameHistory>>
       ELSE /\ gameHistory' = SubSeq(gameHistory, 1, Len(gameHistory) - 1)
            /\ \E r \in {undoRestore(gameHistory[Len(gameHistory) - 1])} :
                  /\ bombs' = r.bombs
                  /\ guards' = r.guards
                  /\ targets' = r.targets
                  /\ turnIndex' = r.turnIndex
                  /\ gameState' = r.gameState
            /\ last' = [op |-> "undo", ret |-> "restored", pre |-> gameState]

-----------------------------------------------------------------------------
(* The game: loadLevel, then clicks and end-of-turn *)

Init ==
    /\ config \in levelConfigs
    /\ guards = initGuards(levelGuards)
    /\ targets = initTargets(levelTargets)
    /\ bombs = <<>>
    /\ turnIndex = 0
    /\ gameState = PLAYING
    /\ bombIdCounter = 0
    /\ editor = Null
    /\ gameHistory = saveGameState(<<>>, <<>>, initGuards(levelGuards),
                                   initTargets(levelTargets), 0, PLAYING)
    /\ turnLog = emptyLog
    /\ last = [op |-> "loadLevel", ret |-> "loaded", pre |-> PLAYING]
    /\ call = Null

Click == \E clickPos \in ClickPositions : HandleCanvasClick(clickPos)

Next == Click \/ EndTurn \/ Undo

Spec == Init /\ [][Next]_vars

\* loadLevel of the second level
WideInit ==
    /\ config \in wideLevelConfigs
    /\ guards = initGuards(wideLevelGuards)
    /\ targets = initTargets(wideLevelTargets)
    /\ bombs = <<>>
    /\ turnIndex = 0
    /\ gameState = PLAYING
    /\ bombIdCounter = 0
    /\ editor = Null
    /\ gameHistory = saveGameState(<<>>, <<>>, initGuards(wideLevelGuards),
                                   initTargets(wideLevelTargets), 0, PLAYING)
    /\ turnLog = emptyLog
    /\ last = [op |-> "loadLevel", ret |-> "loaded", pre |-> PLAYING]
    /\ call = Null

SpecWide == WideInit /\ [][Next]_vars

-----------------------------------------------------------------------------
(* Two runs of the untimed level: a run is played until it is lost, the    *)
(* level is restarted by the game-over timer, and a second run is played.  *)
(* One resolved turn of the first run is kept in call - the state          *)
(* simulateTurn started from and the state it left - next to the run       *)
(* number.                                                                 *)

\* the level state a turn starts from or ends in: the bombs without their
\* ids, the guards' positions and memories, the targets, the turn index and
\* the game state
levelState(bs, gpos, gmem, tgs, turn, state) ==
    [bombs |-> [i \in 1..Len(bs) |->
                  [pos |-> bs[i].pos, hasTimer |-> bs[i].hasTimer, timer |-> bs[i].timer,
                   state |-> bs[i].state, turnPlaced |-> bs[i].turnPlaced]],
     guardPos |-> gpos,
     guardMemory |-> gmem,
     targets |-> tgs,
     turnIndex |-> turn,
     gameState |-> state]

\* the tiles the player clicks in the two runs
rerunPositions == {Vec(3, 2), Vec(2, 0), Vec(0, 2)}

RerunClick == \E clickPos \in rerunPositions : HandleCanvasClick(clickPos)

\* an endTurn of the first run that resolves a turn, kept in call
RecordEndTurn ==
    /\ call = Null
    /\ gameState = PLAYING
    /\ endTurn
    /\ call' = [op |-> "simulateTurn", run |-> 1,
                before |-> levelState(bombs, [i \in 1..Len(guards) |-> guards[i].pos],
                                      [i \in 1..Len(guards) |-> guards[i].memory],
                                      targets, turnIndex, gameState),
                after |-> levelState(bombs', [i \in 1..Len(guards) |-> guards'[i].pos],
                                     [i \in 1..Len(guards) |-> guards'[i].memory],
                                     targets', turnIndex', gameState'),
                bombIdCounter |-> bombIdCounter]

\* the timer startGameOverFade sets once the game is lost: restartLevel(),
\* which loads the level again.  Explored once, after a turn was recorded.
RestartLevel ==
    /\ gameState = LOST
    /\ call # Null /\ call.run = 1
    /\ guards' = initGuards(levelGuards)
    /\ targets' = initTargets(levelTargets)
    /\ bombs' = <<>>
    /\ turnIndex' = 0
    /\ gameState' = PLAYING
    /\ bombIdCounter' = 0
    /\ gameHistory' = saveGameState(<<>>, <<>>, initGuards(levelGuards),
                                    initTargets(levelTargets), 0, PLAYING)
    /\ turnLog' = emptyLog
    /\ last' = [op |-> "restartLevel", ret |-> "loaded", pre |-> gameState]
    /\ call' = [call EXCEPT !.run = 2]
    /\ UNCHANGED <<config, editor>>

RerunNext == RerunClick \/ EndTurn \/ RecordEndTurn \/ Undo \/ RestartLevel

\* loadLevel of the untimed level
RerunInit == Init /\ ~config.timersAllowed

SpecRerun == RerunInit /\ [][RerunNext]_vars

-----------------------------------------------------------------------------
(* loadLevel alone: the game as its constructor leaves it, a level          *)
(* descriptor in call - one guard and one target, each anywhere on the grid *)
(* or just outside it, the guard with a hearing radius stated or not - and  *)
(* one call of loadLevel.                                                   *)

levelDescriptors ==
    {[config |-> cfg,
      guards |-> <<[x |-> g.x, y |-> g.y, hearingRadius |-> r]>>,
      targets |-> <<[x |-> t.x, y |-> t.y]>>] :
        cfg \in {c \in levelConfigs : ~c.timersAllowed},
        g \in ClickPositions, t \in ClickPositions,
        r \in {undefinedRadius} \cup 0..MaxStatedRadius}

LoadInit ==
    /\ call \in {[op |-> "levelData", data |-> d, ret |-> Null] : d \in levelDescriptors}
    /\ config = Null
    /\ guards = <<>>
    /\ targets = <<>>
    /\ bombs = <<>>
    /\ turnIndex = 0
    /\ gameState = PLAYING
    /\ bombIdCounter = 0
    /\ gameHistory = <<>>
    /\ editor = Null
    /\ turnLog = emptyLog
    /\ last = [op |-> "constructor", ret |-> "constructed", pre |-> PLAYING]

\* loadLevel(levelData): new Level(levelData), the game's fields reset, the
\* initial state saved
LoadLevel ==
    /\ call.op = "levelData"
    /\ config' = call.data.config
    /\ guards' = initGuards(call.data.guards)
    /\ targets' = initTargets(call.data.targets)
    /\ bombs' = <<>>
    /\ turnIndex' = 0
    /\ gameState' = PLAYING
    /\ bombIdCounter' = 0
    /\ gameHistory' = saveGameState(<<>>, <<>>, initGuards(call.data.guards),
                                    initTargets(call.data.targets), 0, PLAYING)
    /\ turnLog' = emptyLog
    /\ last' = [op |-> "loadLevel", ret |-> "loaded", pre |-> gameState]
    /\ call' = [call EXCEPT !.op = "loadLevel", !.ret = "loaded"]
    /\ UNCHANGED editor

LoadNext == LoadLevel

SpecLoad == LoadInit /\ [][LoadNext]_vars

-----------------------------------------------------------------------------
(* The level editor (LevelEditor): the tool buttons, the hearing-radius     *)
(* field, paint, exportLevel and importLevel, on a grid of editorGridSize   *)
(* by editorGridSize tiles.  Texts of fields are sequences of digits.       *)

editorGridSize == 2

EditorTool == {"floor", "wall", "void", "guard", "target", "erase"}

\* parseInt of a text without digits
NaN == -1

\* null, as JSON.stringify writes NaN and JSON.parse reads it back
jsonNull == -2

\* guard.hearingRadius || 8 and config.defaultHearingRadius || 8
importHearingRadius == 8

\* the texts typed into the defaultHearingRadius field
hearingFieldValues == {<<>>, <<0>>}

\* the tiles the mouse is pressed on: the grid and one tile right of it
editorPositions ==
    {Vec(x, y) : x \in 0..editorGridSize, y \in 0..(editorGridSize - 1)}

RECURSIVE parseDigits(_, _)
parseDigits(s, acc) ==
    IF s = <<>> THEN acc ELSE parseDigits(Tail(s), 10 * acc + Head(s))

parseInt(s) == IF s = <<>> THEN NaN ELSE parseDigits(s, 0)

\* the text an input field shows for a number assigned to its value
RECURSIVE toDigits(_)
toDigits(n) == IF n < 10 THEN <<n>> ELSE Append(toDigits(n \div 10), n % 10)

\* a number written by JSON.stringify and read back by JSON.parse
jsonNumber(n) == IF n = NaN THEN jsonNull ELSE n

\* v || d for a number or null read from JSON
orDefault(v, d) == IF v = jsonNull \/ v = 0 THEN d ELSE v

initializeGrid(n) == [y \in 1..n |-> [x \in 1..n |-> VOID]]

\* the editor its constructor builds
newEditor ==
    [currentTool |-> "floor",
     gridSize |-> editorGridSize,
     grid |-> initializeGrid(editorGridSize),
     guards |-> <<>>,
     targets |-> <<>>,
     guardIdCounter |-> 0,
     targetIdCounter |-> 0,
     defaultHearingRadius |-> toDigits(importHearingRadius),
     jsonOutput |-> Null]

isValidGridPos(e, pos) ==
    pos.x >= 0 /\ pos.x < e.gridSize /\ pos.y >= 0 /\ pos.y < e.gridSize

\* findIndex(entity => entity.x === pos.x && entity.y === pos.y), 0 for -1
findIndexAt(es, pos) ==
    IF \E i \in 1..Len(es) : es[i].x = pos.x /\ es[i].y = pos.y
    THEN CHOOSE i \in 1..Len(es) :
            /\ es[i].x = pos.x /\ es[i].y = pos.y
            /\ \A j \in 1..(i - 1) : ~(es[j].x = pos.x /\ es[j].y = pos.y)
    ELSE 0

\* splice(index, 1)
spliceOut(es, index) ==
    IF index = 0 THEN es
    ELSE SubSeq(es, 1, index - 1) \o SubSeq(es, index + 1, Len(es))

keepGuardAt(gs, pos) == gs

removeGuardAt(gs, pos) == spliceOut(gs, findIndexAt(gs, pos))

removeTargetAt(ts, pos) == spliceOut(ts, findIndexAt(ts, pos))

removeEntitiesAt(e, pos) ==
    [e EXCEPT !.guards = removeGuardAt(@, pos), !.targets = removeTargetAt(@, pos)]

\* this.grid[pos.y][pos.x] = tile
setTile(e, pos, tile) == [e EXCEPT !.grid[pos.y + 1][pos.x + 1] = tile]

paint(e, pos) ==
    IF ~isValidGridPos(e, pos) THEN e
    ELSE CASE e.currentTool = "floor" -> removeEntitiesAt(setTile(e, pos, FLOOR), pos)
           [] e.currentTool = "wall" -> removeEntitiesAt(setTile(e, pos, WALL), pos)
           [] e.currentTool = "void" -> removeEntitiesAt(setTile(e, pos, VOID), pos)
           [] e.currentTool = "guard" ->
                IF e.grid[pos.y + 1][pos.x + 1] = FLOOR
                THEN [e EXCEPT
                        !.guards = Append(removeGuardAt(@, pos),
                                          [id |-> e.guardIdCounter, x |-> pos.x, y |-> pos.y,
                                           hearingRadius |-> parseInt(e.defaultHearingRadius)]),
                        !.guardIdCounter = @ + 1]
                ELSE e
           [] e.currentTool = "target" ->
                IF e.grid[pos.y + 1][pos.x + 1] = FLOOR
                THEN [e EXCEPT
                        !.targets = Append(removeTargetAt(@, pos),
                                           [id |-> e.targetIdCounter, x |-> pos.x, y |-> pos.y]),
                        !.targetIdCounter = @ + 1]
                ELSE e
           [] e.currentTool = "erase" -> removeEntitiesAt(e, pos)

\* the level data exportLevel writes to the jsonOutput field, as JSON.parse
\* reads it back
exportLevel(e) ==
    [config |-> [gridSize |-> jsonNumber(e.gridSize),
                 defaultHearingRadius |-> jsonNumber(parseInt(e.defaultHearingRadius))],
     guards |-> [i \in 1..Len(e.guards) |->
                    [x |-> jsonNumber(e.guards[i].x), y |-> jsonNumber(e.guards[i].y),
                     hearingRadius |-> jsonNumber(e.guards[i].hearingRadius)]],
     targets |-> [i \in 1..Len(e.targets) |->
                    [x |-> jsonNumber(e.targets[i].x), y |-> jsonNumber(e.targets[i].y)]],
     grid |-> e.grid]

\* the grid importLevel builds: updateGridSize, then the rows and columns of
\* levelData.grid that fit
importGrid(n, levelGrid) ==
    [y \in 1..n |-> [x \in 1..n |->
        IF y <= Len(levelGrid) /\ x <= Len(levelGrid[y]) THEN levelGrid[y][x] ELSE VOID]]

importLevel(e, levelData) ==
    [e EXCEPT
        !.defaultHearingRadius =
            toDigits(orDefault(levelData.config.defaultHearingRadius, importHearingRadius)),
        !.gridSize = orDefault(levelData.config.gridSize, editorGridSize),
        !.grid = importGrid(orDefault(levelData.config.gridSize, editorGridSize),
                            levelData.grid),
        !.guards = [i \in 1..Len(levelData.guards) |->
                      [id |-> i - 1, x |-> levelData.guards[i].x, y |-> levelData.guards[i].y,
                       hearingRadius |->
                          orDefault(levelData.guards[i].hearingRadius, importHearingRadius)]],
        !.guardIdCounter = Len(levelData.guards),
        !.targets = [i \in 1..Len(levelData.targets) |->
                       [id |-> i - 1, x |-> levelData.targets[i].x,
                        y |-> levelData.targets[i].y]],
        !.targetIdCounter = Len(levelData.targets)]

\* the errors of validateLevel
validateLevel(e) ==
    (IF Len(e.targets) = 0 THEN {"no target"} ELSE {})
    \cup {"guard off floor" : i \in {j \in 1..Len(e.guards) :
                e.grid[e.guards[j].y + 1][e.guards[j].x + 1] # FLOOR}}
    \cup {"target off floor" : i \in {j \in 1..Len(e.targets) :
                e.grid[e.targets[j].y + 1][e.targets[j].x + 1] # FLOOR}}

\* the grid, guards and targets of the editor
editorLevel(e) == [grid |-> e.grid, guards |-> e.guards, targets |-> e.targets]

EditorInit ==
    /\ editor = newEditor
    /\ config = Null
    /\ guards = <<>>
    /\ targets = <<>>
    /\ bombs = <<>>
    /\ turnIndex = 0
    /\ gameState = PLAYING
    /\ bombIdCounter = 0
    /\ gameHistory = <<>>
    /\ turnLog = emptyLog
    /\ last = [op |-> "constructor", ret |-> "constructed", pre |-> PLAYING]
    /\ call = [op |-> "editing", ops |-> 0, exported |-> Null]

editorUnchanged ==
    UNCHANGED <<config, guards, targets, bombs, turnIndex, gameState, bombIdCounter,
                gameHistory, turnLog>>

\* a click on a tool button
SelectTool ==
    /\ \E tool \in EditorTool : editor' = [editor EXCEPT !.currentTool = tool]
    /\ last' = [op |-> "selectTool", ret |-> "selected", pre |-> gameState]
    /\ UNCHANGED call
    /\ editorUnchanged

\* a text typed into the defaultHearingRadius field
TypeHearingRadius ==
    /\ \E text \in hearingFieldValues :
          editor' = [editor EXCEPT !.defaultHearingRadius = text]
    /\ last' = [op |-> "typeHearingRadius", ret |-> "typed", pre |-> gameState]
    /\ UNCHANGED call
    /\ editorUnchanged

\* the mouse pressed on a tile: paint(pos)
Paint ==
    /\ call.ops < MaxEditorOps
    /\ \E pos \in editorPositions :
          /\ editor' = paint(editor, pos)
          /\ last' = [op |-> "paint",
                      ret |-> IF isValidGridPos(editor, pos) THEN "painted" ELSE "ignored",
                      pre |-> gameState]
    /\ call' = [call EXCEPT !.ops = @ + 1]
    /\ editorUnchanged

ExportLevel ==
    /\ call.ops < MaxEditorOps
    /\ editor' = [editor EXCEPT !.jsonOutput = exportLevel(editor)]
    /\ last' = [op |-> "exportLevel", ret |-> "exported", pre |-> gameState]
    /\ call' = [call EXCEPT !.ops = @ + 1, !.exported = editorLevel(editor)]
    /\ editorUnchanged

\* importLevel() of the text in the jsonOutput field
ImportLevel ==
    /\ call.ops < MaxEditorOps
    /\ IF editor.jsonOutput = Null
       THEN /\ last' = [op |-> "importLevel", ret |-> "ignored", pre |-> gameState]
            /\ UNCHANGED editor
       ELSE /\ editor' = importLevel(editor, editor.jsonOutput)
            /\ last' = [op |-> "importLevel", ret |-> "imported", pre |-> gameState]
    /\ call' = [call EXCEPT !.ops = @ + 1]
    /\ editorUnchanged

EditorNext == SelectTool \/ TypeHearingRadius \/ Paint \/ ExportLevel \/ ImportLevel

SpecEditor == EditorInit /\ [][EditorNext]_vars

-----------------------------------------------------------------------------
(* The Movement Arbiter alone: a level with ArbGuards guards on pairwise    *)
(* distinct Floor tiles, one proposal per guard (its own tile or an        *)
(* orthogonally adjacent Floor tile, as getNextStep returns), and one call *)
(* of resolveMovementConflicts.                                            *)

RECURSIVE arrangements(_)
arrangements(n) ==
    IF n = 0 THEN {<<>>}
    ELSE {Append(a, c) : <<a, c>> \in
            {pr \in arrangements(n - 1) \X FloorCells : pr[2] \notin Range(pr[1])}}

stepsFrom(pos) == {pos} \cup {q \in FloorCells : manhattanDistance(pos, q) = 1}

RECURSIVE proposalsFor(_)
proposalsFor(pos) ==
    IF pos = <<>> THEN {<<>>}
    ELSE {Append(pr[1], pr[2]) :
            pr \in proposalsFor(SubSeq(pos, 1, Len(pos) - 1)) \X stepsFrom(pos[Len(pos)])}

ArbInit ==
    /\ config = [timersAllowed |-> FALSE, maxBombsPerTurn |-> 1]
    /\ \E pos \in arrangements(ArbGuards) :
         /\ guards = [i \in 1..ArbGuards |-> newGuard(i - 1, pos[i], defaultHearingRadius)]
         /\ \E dest \in proposalsFor(pos) :
              turnLog = [emptyLog EXCEPT
                           !.phase = "proposed",
                           !.proposals = [i \in 1..ArbGuards |->
                                            [guardId |-> i - 1, destination |-> dest[i]]],
                           !.startPos = pos]
    /\ targets = initTargets(levelTargets)
    /\ bombs = <<>>
    /\ turnIndex = 0
    /\ gameState = PLAYING
    /\ bombIdCounter = 0
    /\ gameHistory = <<>>
    /\ editor = Null
    /\ last = [op |-> "loadLevel", ret |-> "loaded", pre |-> PLAYING]
    /\ call = Null

Arbitrate ==
    /\ turnLog.phase = "proposed"
    /\ guards' = resolveMovementConflicts(guards, turnLog.proposals)
    /\ turnLog' = [turnLog EXCEPT !.phase = "resolved"]
    /\ last' = [op |-> "resolveMovementConflicts", ret |-> "applied", pre |-> gameState]
    /\ UNCHANGED <<config, targets, bombs, turnIndex, gameState, bombIdCounter, call, gameHistory, editor>>

ArbNext == Arbitrate

SpecArb == ArbInit /\ [][ArbNext]_vars

-----------------------------------------------------------------------------
(* The Pathfinder alone: one call of getPathDistance or getNextStep between *)
(* two Floor tiles of a level.  The levels are the level of the game and   *)
(* every pathGridSize x pathGridSize terrain of Floor and Wall with at     *)
(* most MaxPathWalls walls; a guard may stand on a Floor tile next to the  *)
(* start tile and a bomb may lie on the start tile, as during a turn of    *)
(* the game.                                                               *)

pathGridSize == 3

\* levelData of a size x size level whose tiles in walls are Wall, in voids
\* Void, and Floor elsewhere
levelOf(size, walls, voids, range) ==
    [gridSize |-> size,
     grid |-> [y \in 1..size |-> [x \in 1..size |->
                 IF Vec(x - 1, y - 1) \in walls THEN WALL
                 ELSE IF Vec(x - 1, y - 1) \in voids THEN VOID
                 ELSE FLOOR]],
     blastRange |-> range]

cellsOf(size) == {Vec(x, y) : x \in 0..(size - 1), y \in 0..(size - 1)}

\* the sets of at most n of the cells
RECURSIVE wallSets(_, _)
wallSets(cells, n) ==
    IF n = 0 THEN {{}}
    ELSE wallSets(cells, n - 1) \cup
         {w \cup {c} : w \in wallSets(cells, n - 1), c \in cells}

floorOf(lv) == {p \in cellsOf(lv.gridSize) : isPassable(lv, p)}

pathLevels ==
    {gameLevel} \cup
    {levelOf(pathGridSize, walls, {}, blastRange) :
        walls \in wallSets(cellsOf(pathGridSize), MaxPathWalls)}

PathInit ==
    /\ \E lv \in pathLevels : \E a, b \in floorOf(lv) :
         /\ call = [op |-> "pathArgs", level |-> lv, a |-> a, b |-> b, ret |-> Null]
         /\ guards \in {<<>>} \cup
                {<<newGuard(0, c, defaultHearingRadius)>> :
                    c \in {q \in floorOf(lv) : manhattanDistance(a, q) = 1}}
         /\ bombs \in {<<>>, <<newBomb(0, a, FALSE) @@ [turnPlaced |-> 0]>>}
    /\ config = [timersAllowed |-> FALSE, maxBombsPerTurn |-> 1]
    /\ targets = <<>>
    /\ turnIndex = 0
    /\ gameState = PLAYING
    /\ bombIdCounter = Len(bombs)
    /\ gameHistory = <<>>
    /\ editor = Null
    /\ turnLog = emptyLog
    /\ last = [op |-> "loadLevel", ret |-> "loaded", pre |-> PLAYING]

CallGetPathDistance ==
    /\ call.op = "pathArgs"
    /\ call' = [call EXCEPT !.op = "getPathDistance",
                            !.ret = getPathDistance(call.level, call.a, call.b)]
    /\ UNCHANGED <<config, guards, targets, bombs, turnIndex, gameState, bombIdCounter,
                   turnLog, last, gameHistory, editor>>

CallGetNextStep ==
    /\ call.op = "pathArgs"
    /\ call' = [call EXCEPT !.op = "getNextStep",
                            !.ret = getNextStep(call.level, call.a, call.b)]
    /\ UNCHANGED <<config, guards, targets, bombs, turnIndex, gameState, bombIdCounter,
                   turnLog, last, gameHistory, editor>>

PathNext == CallGetPathDistance \/ CallGetNextStep

SpecPath == PathInit /\ [][PathNext]_vars

-----------------------------------------------------------------------------
(* The blast alone: one call of calculateBlastTiles for a bomb on a Floor  *)
(* tile of a blastGridSize x blastGridSize level of Floor and Wall with at *)
(* most MaxBlastWalls walls and a blastRange of 1..MaxBlastRange.          *)

blastGridSize == 5

blastLevels ==
    {levelOf(blastGridSize, walls, {}, range) :
        walls \in wallSets(cellsOf(blastGridSize), MaxBlastWalls),
        range \in 1..MaxBlastRange}

BlastInit ==
    /\ \E lv \in blastLevels : \E bombPos \in floorOf(lv) :
         /\ call = [op |-> "blastArgs", level |-> lv, bombPos |-> bombPos, ret |-> Null]
         /\ bombs = <<newBomb(0, bombPos, FALSE) @@ [turnPlaced |-> 0]>>
    /\ config = [timersAllowed |-> FALSE, maxBombsPerTurn |-> 1]
    /\ guards = <<>>
    /\ targets = <<>>
    /\ turnIndex = 0
    /\ gameState = PLAYING
    /\ bombIdCounter = 1
    /\ gameHistory = <<>>
    /\ editor = Null
    /\ turnLog = emptyLog
    /\ last = [op |-> "loadLevel", ret |-> "loaded", pre |-> PLAYING]

CallCalculateBlastTiles ==
    /\ call.op = "blastArgs"
    /\ call' = [call EXCEPT !.op = "calculateBlastTiles",
                            !.ret = calculateBlastTiles(call.level, call.bombPos)]
    /\ UNCHANGED <<config, guards, targets, bombs, turnIndex, gameState, bombIdCounter,
                   turnLog, last, gameHistory, editor>>

BlastNext == CallCalculateBlastTiles

SpecBlast == BlastInit /\ [][BlastNext]_vars

-----------------------------------------------------------------------------
(* Reference definitions the properties are stated with: terrain read      *)
(* straight from the grid and breadth-first path length.                   *)

RefFloor == {p \in Positions :
               /\ p.x >= 0 /\ p.x < gridSize /\ p.y >= 0 /\ p.y < gridSize
               /\ grid[p.y + 1][p.x + 1] = FLOOR}

RefAdjacent(c) == {d \in RefFloor : Abs(c.x - d.x) + Abs(c.y - d.y) = 1}

\* no path on the grid is this long
Unreachable == gridSize * gridSize

RECURSIVE RefBfs(_, _, _, _)
RefBfs(frontier, seen, goal, depth) ==
    IF goal \in frontier THEN depth
    ELSE IF frontier = {} THEN Unreachable
    ELSE LET next == UNION {RefAdjacent(c) : c \in frontier} \ seen
         IN RefBfs(next, seen \cup next, goal, depth + 1)

RefDistTable == [a \in RefFloor |-> [b \in RefFloor |-> RefBfs({a}, {a}, b, 0)]]

RefDist(a, b) == RefDistTable[a][b]

RefWithin(a, b, radius) == RefDist(a, b) # Unreachable /\ RefDist(a, b) <= radius

Resolved == turnLog.phase = "resolved"

TurnResolved == last.op = "endTurn" /\ last.ret = "resolved"

GuardIx == 1..Len(guards)

\* the noise ledger of the turn just resolved
Ledger == Range(turnLog.tickingSources) \cup Range(turnLog.explodingSources)

\* the ledger entries guard i could hear from where it stood before moving
AudibleTo(i) ==
    {s \in Ledger : RefWithin(turnLog.startPos[i], s.pos, guards[i].hearingRadius)}

Perms(n) == {f \in [1..n -> 1..n] : \A i, j \in 1..n : i # j => f[i] # f[j]}

Proposal(i) == turnLog.proposals[i].destination

\* guards i and j propose each other's tile
IsSwap(i, j) ==
    /\ i # j
    /\ Proposal(i) = turnLog.startPos[j]
    /\ Proposal(j) = turnLog.startPos[i]

Claimants(dest) == {j \in GuardIx : Proposal(j) = dest}

-----------------------------------------------------------------------------
(* Properties *)

\* C1: no two guards ever occupy the same tile, whatever bombs are placed,
\* timers cycled and turns resolved.
NoGuardOverlap ==
    \A i, j \in GuardIx : i # j => guards[i].pos # guards[j].pos

\* C2: swap prevention - two guards that propose each other's tile are both
\* on their original tiles after arbitration, whichever ids they carry.
SwapPrevention ==
    Resolved =>
        \A i, j \in GuardIx :
            IsSwap(i, j) => /\ guards[i].pos = turnLog.startPos[i]
                            /\ guards[j].pos = turnLog.startPos[j]

\* C3: the arbiter is order-independent - with the positions and the
\* proposal of every guard fixed, every guard ends on the same tile under
\* every iteration order of the proposals and every assignment of the ids.
ArbiterOrderIndependent ==
    Resolved =>
        LET n == Len(guards)
            start == turnLog.startPos
            props == turnLog.proposals
            before == [i \in 1..n |-> [guards[i] EXCEPT !.pos = start[i]]]
        IN \A pi \in Perms(n) :
             /\ LET byOrder == resolveMovementConflicts(before,
                                    [k \in 1..n |-> props[pi[k]]])
                IN \A i \in 1..n : byOrder[i].pos = guards[i].pos
             /\ LET byIds == resolveMovementConflicts(
                                [k \in 1..n |-> [before[pi[k]] EXCEPT !.id = k - 1]],
                                [k \in 1..n |-> [guardId |-> k - 1,
                                                 destination |-> props[pi[k]].destination]])
                IN \A k \in 1..n : byIds[k].pos = guards[pi[k]].pos

\* C4: every guard whose proposed destination is proposed by two or more
\* guards (a guard proposing its own tile counts) ends arbitration on its
\* own tile.
ContestedDestinationStays ==
    Resolved =>
        \A i \in GuardIx :
            Cardinality(Claimants(Proposal(i))) >= 2
                => guards[i].pos = turnLog.startPos[i]

ContestedDestinationSeen ==
    /\ Resolved
    /\ \E i, j \in GuardIx :
         /\ i # j
         /\ Proposal(i) = Proposal(j)
         /\ Proposal(i) # turnLog.startPos[i]
         /\ guards[i].pos = turnLog.startPos[i]
         /\ guards[j].pos = turnLog.startPos[j]

\* C5: a proposal whose destination has exactly one claimant and that is
\* not part of a two-party swap is applied as-is.
SingleClaimantApplied ==
    Resolved =>
        \A i \in GuardIx :
            (/\ Claimants(Proposal(i)) = {i}
             /\ ~\E j \in GuardIx : IsSwap(i, j))
                => guards[i].pos = Proposal(i)

\* C6: after a resolved turn the outcome is Lost if a guard stands on a
\* blast tile of a bomb that detonated this turn (even with every target
\* destroyed), else Won if every target is destroyed, else still Playing.
\* The blast tiles are those the blast resolver computed this turn.
OutcomePrecedence ==
    TurnResolved =>
        gameState =
            IF \E i \in GuardIx : guards[i].pos \in turnLog.blast THEN LOST
            ELSE IF \A t \in 1..Len(targets) : targets[t].destroyed THEN WON
            ELSE PLAYING

LostWithEveryTargetDestroyed ==
    /\ TurnResolved
    /\ \E i \in GuardIx : guards[i].pos \in turnLog.blast
    /\ \A t \in 1..Len(targets) : targets[t].destroyed
    /\ gameState = LOST

\* C7: Won and Lost are terminal - an endTurn in a Won or Lost game leaves
\* the game state, the turn index, the guards, the targets and the bombs
\* as they were.
TerminalStatesFrozen ==
    [][(gameState # PLAYING /\ last'.op = "endTurn")
          => UNCHANGED <<gameState, turnIndex, guards, targets, bombs>>]_vars

EndTurnAfterGameOver ==
    /\ last.op = "endTurn"
    /\ last.pre \in {WON, LOST}
    /\ gameState = last.pre

\* C8: every guard always stands on an in-bounds Floor tile.
GuardsOnFloor ==
    \A i \in GuardIx : guards[i].pos \in RefFloor

GuardWalked ==
    /\ TurnResolved
    /\ \E i \in GuardIx : guards[i].pos # turnLog.startPos[i]

\* C9: hearing boundary - a guard selects a noise source exactly when some
\* ledger entry lies within its hearing radius by path distance, and the
\* selected entry is one of those; an entry at distance radius + 1 or an
\* unreachable one is never selected, a sole entry at distance exactly the
\* radius is.
HearingBoundary ==
    TurnResolved =>
        \A i \in GuardIx :
            IF AudibleTo(i) = {} THEN turnLog.chosen[i] = Null
            ELSE turnLog.chosen[i] \in AudibleTo(i)

HeardAtRadiusAndDeafBeyond ==
    /\ TurnResolved
    /\ \E i \in GuardIx :
         /\ Cardinality(Ledger) = 1
         /\ \E s \in Ledger :
              /\ RefDist(turnLog.startPos[i], s.pos) = guards[i].hearingRadius
              /\ turnLog.chosen[i] = s
    /\ \E j \in GuardIx : \E s \in Ledger :
         /\ \/ RefDist(turnLog.startPos[j], s.pos) = guards[j].hearingRadius + 1
            \/ RefDist(turnLog.startPos[j], s.pos) = Unreachable
         /\ turnLog.chosen[j] = Null

\* C10: among the audible entries the guard pursues the first under
\* (loudness descending, path distance ascending, detonation before
\* ticking, lower y, then lower x); the order in which the bombs are stored
\* plays no part.
ClaimedBefore(i, s, t) ==
    LET ds == RefDist(turnLog.startPos[i], s.pos)
        dt == RefDist(turnLog.startPos[i], t.pos)
    IN IF s.level # t.level THEN s.level > t.level
       ELSE IF ds # dt THEN ds < dt
       ELSE IF s.list # t.list THEN s.list = "exploding"
       ELSE IF s.pos.y # t.pos.y THEN s.pos.y < t.pos.y
       ELSE s.pos.x < t.pos.x

PursuesFirstInOrder ==
    TurnResolved =>
        \A i \in GuardIx :
            AudibleTo(i) # {} =>
                /\ turnLog.chosen[i] \in AudibleTo(i)
                /\ \A s \in AudibleTo(i) \ {turnLog.chosen[i]} :
                       ClaimedBefore(i, turnLog.chosen[i], s)
                /\ guards[i].targetPos = turnLog.chosen[i].pos

LouderFartherSourceChosen ==
    /\ TurnResolved
    /\ \E i \in GuardIx : \E s \in AudibleTo(i) :
         /\ turnLog.chosen[i] # Null
         /\ s.level < turnLog.chosen[i].level
         /\ RefDist(turnLog.startPos[i], s.pos)
              < RefDist(turnLog.startPos[i], turnLog.chosen[i].pos)

\* C11: for all Floor tiles a and b of a level the path distance from a to
\* b equals the path distance from b to a, and the distance from a tile to
\* itself is 0.
PathDistanceSymmetric ==
    call.op = "getPathDistance" =>
        /\ call.ret = getPathDistance(call.level, call.b, call.a)
        /\ (call.a = call.b => call.ret = 0)

PathDistanceOfDetourSeen ==
    /\ call.op = "getPathDistance"
    /\ call.a # call.b
    /\ call.ret # Infinity
    /\ call.ret > manhattanDistance(call.a, call.b)
    /\ call.ret = getPathDistance(call.level, call.b, call.a)

\* breadth-first path length over the Floor tiles of a level, read from its
\* terrain alone
LevelFloor(lv) ==
    {p \in cellsOf(lv.gridSize) : lv.grid[p.y + 1][p.x + 1] = FLOOR}

LevelAdjacent(lv, c) == {d \in LevelFloor(lv) : Abs(c.x - d.x) + Abs(c.y - d.y) = 1}

RECURSIVE LevelBfs(_, _, _, _, _)
LevelBfs(lv, frontier, seen, goal, depth) ==
    IF goal \in frontier THEN depth
    ELSE IF frontier = {} THEN Unreachable
    ELSE LET next == UNION {LevelAdjacent(lv, c) : c \in frontier} \ seen
         IN LevelBfs(lv, next, seen \cup next, goal, depth + 1)

LevelDist(lv, a, b) == LevelBfs(lv, {a}, {a}, b, 0)

\* C12: for all Floor tiles a and b, getPathDistance(a, b) is the length of
\* a shortest 4-directional path through Floor tiles as breadth-first
\* search finds it, and Infinity exactly when there is none, whatever
\* guards and bombs are on the level.
PathDistanceExact ==
    call.op = "getPathDistance" =>
        IF LevelDist(call.level, call.a, call.b) = Unreachable
        THEN call.ret = Infinity
        ELSE /\ call.ret = LevelDist(call.level, call.a, call.b)
             /\ call.ret # Infinity

PathDistanceOfOccupiedDetourSeen ==
    /\ call.op = "getPathDistance"
    /\ call.ret = LevelDist(call.level, call.a, call.b)
    /\ call.ret # Infinity
    /\ call.ret > manhattanDistance(call.a, call.b) + 2
    /\ guards # <<>> /\ guards[1].pos \notin {call.a, call.b}
    /\ bombs # <<>>

\* C13: getNextStep(a, b) is a when a = b or when b cannot be reached from
\* a; otherwise it is a Floor tile orthogonally adjacent to a whose path
\* distance to b is one less than that of a.
NextStepOnShortestPath ==
    call.op = "getNextStep" =>
        IF call.a = call.b \/ LevelDist(call.level, call.a, call.b) = Unreachable
        THEN call.ret = call.a
        ELSE /\ call.ret \in LevelAdjacent(call.level, call.a)
             /\ LevelDist(call.level, call.ret, call.b)
                  = LevelDist(call.level, call.a, call.b) - 1

NextStepAroundWallSeen ==
    /\ call.op = "getNextStep"
    /\ LevelDist(call.level, call.a, call.b) # Unreachable
    /\ LevelDist(call.level, call.a, call.b) > manhattanDistance(call.a, call.b)
    /\ call.ret \in LevelAdjacent(call.level, call.a)
    /\ manhattanDistance(call.ret, call.b) > manhattanDistance(call.a, call.b)

\* the tile k steps from p in direction d
Along(p, d, k) == Vec(p.x + k * d.x, p.y + k * d.y)

InLevel(lv, c) == c \in cellsOf(lv.gridSize)

IsWall(lv, c) == InLevel(lv, c) /\ lv.grid[c.y + 1][c.x + 1] = WALL

Compass == {Vec(0, -1), Vec(1, 0), Vec(0, 1), Vec(-1, 0)}

\* the ray from p in direction d: the tiles at 1..blastRange steps, up to
\* but not including the first Wall
RefRay(lv, p, d) ==
    {Along(p, d, k) : k \in {i \in 1..lv.blastRange :
        /\ InLevel(lv, Along(p, d, i))
        /\ \A j \in 1..i : ~IsWall(lv, Along(p, d, j))}}

RefCross(lv, p) == {p} \cup UNION {RefRay(lv, p, d) : d \in Compass}

BlastCalled == call.op = "calculateBlastTiles"

\* the blast set the call returned
BlastSet == Range(call.ret)

\* C14: the blast set of a bomb is exactly the orthogonal cross - its own
\* tile and, in each of the four directions, the tiles at 1..blastRange
\* steps up to but not including the first Wall; nothing off the bomb's row
\* and column.
BlastIsOrthogonalCross ==
    BlastCalled => BlastSet = RefCross(call.level, call.bombPos)

\* the level with the tile at c made Floor
WithFloorAt(lv, c) ==
    [lv EXCEPT !.grid[c.y + 1][c.x + 1] = FLOOR]

\* the tiles of the level strictly beyond the first step from p in direction d
Beyond(lv, p, d) ==
    {Along(p, d, k) : k \in {i \in 2..lv.gridSize : InLevel(lv, Along(p, d, i))}}

\* the tiles of the level at one or more steps from p in direction d
OnRay(lv, p, d) ==
    {Along(p, d, k) : k \in {i \in 1..lv.gridSize : InLevel(lv, Along(p, d, i))}}

\* C15: blast containment - when a Wall is immediately adjacent to the bomb
\* on one side, no tile beyond that wall in that direction is in the blast
\* set, and on the rays of the other three directions the blast set is the
\* one the same level gives with that wall removed.
BlastContainment ==
    BlastCalled =>
        \A d \in Compass :
            IsWall(call.level, Along(call.bombPos, d, 1)) =>
                /\ BlastSet \cap Beyond(call.level, call.bombPos, d) = {}
                /\ LET open == Range(calculateBlastTiles(
                                   WithFloorAt(call.level, Along(call.bombPos, d, 1)),
                                   call.bombPos))
                   IN \A e \in Compass \ {d} :
                        BlastSet \cap OnRay(call.level, call.bombPos, e)
                          = open \cap OnRay(call.level, call.bombPos, e)

\* the corridor scenario on the bomb's row: bomb at x = 2, blastRange 3, a
\* Wall at x = 3; the row holds x = 0..3 of the blast set, and x = 0..4 once
\* the wall is removed
BlastStoppedByAdjacentWallSeen ==
    /\ BlastCalled
    /\ call.level.blastRange = 3
    /\ call.bombPos = Vec(2, 0)
    /\ IsWall(call.level, Vec(3, 0))
    /\ {c \in BlastSet : c.y = 0} = {Vec(0, 0), Vec(1, 0), Vec(2, 0), Vec(3, 0)}
    /\ {c \in Range(calculateBlastTiles(WithFloorAt(call.level, Vec(3, 0)), call.bombPos)) :
           c.y = 0} = {Vec(x, 0) : x \in 0..4}

\* reflections and the quarter turn about the tile p
MirrorRow(p, c) == Vec(c.x, 2 * p.y - c.y)

MirrorColumn(p, c) == Vec(2 * p.x - c.x, c.y)

QuarterTurn(p, c) == Vec(p.x - (c.y - p.y), p.y + (c.x - p.x))

\* the map sends the level onto itself, tile kinds preserved
TerrainInvariant(lv, p, map(_, _)) ==
    \A c \in cellsOf(lv.gridSize) :
        /\ InLevel(lv, map(p, c))
        /\ lv.grid[map(p, c).y + 1][map(p, c).x + 1] = lv.grid[c.y + 1][c.x + 1]

SetInvariant(set, p, map(_, _)) == \A c \in set : map(p, c) \in set

\* C16: the blast set is symmetric in all four directions - on a terrain
\* that is mirror-symmetric about the bomb's row or column, or invariant
\* under a quarter turn about the bomb, the blast set has the same
\* symmetry, for every blastRange.
BlastSymmetric ==
    BlastCalled =>
        /\ TerrainInvariant(call.level, call.bombPos, MirrorRow)
             => SetInvariant(BlastSet, call.bombPos, MirrorRow)
        /\ TerrainInvariant(call.level, call.bombPos, MirrorColumn)
             => SetInvariant(BlastSet, call.bombPos, MirrorColumn)
        /\ TerrainInvariant(call.level, call.bombPos, QuarterTurn)
             => SetInvariant(BlastSet, call.bombPos, QuarterTurn)

\* the bombs as the turn just resolved found them, and as phase 1 left them
BombsBefore == turnLog.bombsBefore

Ticked == turnLog.ticked

Detonated == {Ticked[i] : i \in {k \in 1..Len(Ticked) : Ticked[k].state = EXPLODING}}

LiveIds == {bombs[j].id : j \in 1..Len(bombs)}

\* C17: timer advance - in a resolved turn a bomb without a timer
\* detonates, a timered bomb with timer > 1 has its timer decreased by
\* exactly 1 and stays, a timered bomb with timer 1 detonates; so a bomb
\* placed with timer 3 and left alone detonates in the third turn.
TimerAdvance ==
    /\ (last.op = "click" /\ last.ret = "placed") =>
          /\ bombs[Len(bombs)].turnPlaced = turnIndex
          /\ bombs[Len(bombs)].hasTimer => bombs[Len(bombs)].timer = 3
    /\ TurnResolved =>
          /\ Len(Ticked) = Len(BombsBefore)
          /\ \A i \in 1..Len(BombsBefore) :
               LET b == BombsBefore[i]
               IN IF b.hasTimer /\ b.timer > 1
                  THEN /\ Ticked[i] = [b EXCEPT !.timer = b.timer - 1]
                       /\ \E j \in 1..Len(bombs) : bombs[j] = Ticked[i]
                  ELSE /\ Ticked[i] = [b EXCEPT !.state = EXPLODING]
                       /\ b.id \notin LiveIds
                       /\ (~b.hasTimer /\ b.turnPlaced = turnIndex - 1)
                            \/ (b.hasTimer /\ b.timer = 1)

TimedBombDetonatedInThirdTurn ==
    /\ TurnResolved
    /\ \E b \in Detonated : b.hasTimer /\ b.timer = 1 /\ turnIndex = b.turnPlaced + 3
    /\ \E i \in 1..Len(BombsBefore) :
         BombsBefore[i].timer = 2 /\ BombsBefore[i].id \in LiveIds

\* C18: in the noise ledger of a turn an entry has loudness 4 exactly when
\* it is a detonation entry, and every bomb that detonates this turn adds
\* exactly one loudness-4 entry, at its own tile.
DetonationLoudness ==
    TurnResolved =>
        /\ \A i \in 1..Len(turnLog.tickingSources) :
             /\ turnLog.tickingSources[i].level # 4
             /\ turnLog.tickingSources[i].list = "ticking"
        /\ LET exploded == SelectSeq(Ticked, LAMBDA b : b.state = EXPLODING)
           IN turnLog.explodingSources =
                [i \in 1..Len(exploded) |-> source(exploded[i].pos, 4, "exploding")]

LastTickAndDetonationSeen ==
    /\ TurnResolved
    /\ \E b \in Detonated :
         /\ b.hasTimer
         /\ source(b.pos, 3, "ticking") \in Range(turnLog.tickingSources)
         /\ source(b.pos, 4, "exploding") \in Range(turnLog.explodingSources)

\* C19: a ticking entry of a timered bomb has a loudness in 1..3 derived
\* from the timer: 3 on the turn before the bomb detonates (it enters the
\* turn with timer 2) and 1 while the bomb has its longest fuse (it enters
\* the turn with timer 3).
TickingLoudness ==
    (TurnResolved /\ config.timersAllowed) =>
        /\ Len(turnLog.tickingSources) = Len(BombsBefore)
        /\ \A i \in 1..Len(BombsBefore) :
             /\ turnLog.tickingSources[i].pos = BombsBefore[i].pos
             /\ turnLog.tickingSources[i].level \in 1..3
             /\ BombsBefore[i].timer = 2 => turnLog.tickingSources[i].level = 3
             /\ BombsBefore[i].timer = 3 => turnLog.tickingSources[i].level = 1

\* C20: a bomb is removed in the turn it detonates - no live bomb is ever
\* in the exploding state, and after a resolved turn no bomb that detonated
\* in it is in the live set.
DetonatedBombsRemoved ==
    /\ \A j \in 1..Len(bombs) : bombs[j].state = TICKING
    /\ TurnResolved => \A b \in Detonated : b.id \notin LiveIds

DetonatedBombGoneOtherStays ==
    /\ TurnResolved
    /\ Detonated # {}
    /\ bombs # <<>>
    /\ \A b \in Detonated : b.id \notin LiveIds

-----------------------------------------------------------------------------
(* Placement and timer cycling *)

\* C21: no two live bombs share a cell - a placement on the cell of a live
\* bomb is rejected.
NoTwoBombsShareCell ==
    \A i, j \in 1..Len(bombs) : i # j => bombs[i].pos # bombs[j].pos

\* the placement caps leave room for one more bomb this turn
CapsOpen ==
    /\ Len(bombs) < maxActiveBombs
    /\ Cardinality({i \in 1..Len(bombs) : bombs[i].turnPlaced = turnIndex})
          < config.maxBombsPerTurn

HoldsTarget(pos) == \E t \in DOMAIN targets : targets[t].pos = pos /\ ~targets[t].destroyed

HoldsGuard(pos) == \E g \in DOMAIN guards : guards[g].pos = pos

Placeable(pos) == pos \in RefFloor /\ ~HoldsTarget(pos) /\ ~HoldsGuard(pos)

\* C22: placeBomb succeeds only on an in-bounds Floor tile without an
\* undestroyed target and without a guard - in every state, every position
\* that is out of bounds, Wall, Void, or holds an undestroyed target or a
\* guard is rejected, and a bomb a click has just placed lies on a tile
\* that is none of these.
PlacementOnlyOnFreeFloor ==
    /\ \A pos \in ClickPositions : ~Placeable(pos) => ~placeBomb(pos).ret
    /\ (last.op = "click" /\ last.ret = "placed") => Placeable(bombs[Len(bombs)].pos)

PlacedWithEveryKindRejected ==
    /\ last.op = "click" /\ last.ret = "placed"
    /\ CapsOpen
    /\ \E pos \in ClickPositions : ~isValidPosition(gameLevel, pos) /\ ~placeBomb(pos).ret
    /\ \E pos \in GridCells : IsWall(gameLevel, pos) /\ ~placeBomb(pos).ret
    /\ \E pos \in GridCells : tileAt(gameLevel, pos) = VOID /\ ~placeBomb(pos).ret
    /\ \E pos \in RefFloor : HoldsTarget(pos) /\ ~placeBomb(pos).ret
    /\ \E pos \in RefFloor : HoldsGuard(pos) /\ ~HoldsTarget(pos) /\ ~placeBomb(pos).ret
    /\ \E pos \in RefFloor : placeBomb(pos).ret

\* the live bombs placed during turn t
PlacedIn(t) == {i \in 1..Len(bombs) : bombs[i].turnPlaced = t}

\* C23: the live bombs never number more than maxActiveBombs, and the bombs
\* placed during one turn never number more than maxBombsPerTurn (bombs
\* leave the live set only when a turn is resolved, so the live bombs
\* stamped with the current turn are all that were placed in it).
PlacementCaps ==
    /\ Len(bombs) <= maxActiveBombs
    /\ \A t \in 0..turnIndex : Cardinality(PlacedIn(t)) <= config.maxBombsPerTurn
    /\ \A i \in 1..Len(bombs) : bombs[i].turnPlaced \in 0..turnIndex

ActiveCapRefusesPlacement ==
    /\ last.op = "click" /\ last.ret = "rejected"
    /\ Len(bombs) = maxActiveBombs
    /\ Cardinality(PlacedIn(turnIndex)) < config.maxBombsPerTurn
    /\ \E pos \in ClickPositions : Placeable(pos)
    /\ \A pos \in ClickPositions : ~placeBomb(pos).ret

TurnCapRefusesPlacement ==
    /\ last.op = "click" /\ last.ret = "rejected"
    /\ Len(bombs) < maxActiveBombs
    /\ Cardinality(PlacedIn(turnIndex)) = config.maxBombsPerTurn
    /\ \E pos \in ClickPositions : Placeable(pos)
    /\ \A pos \in ClickPositions : ~placeBomb(pos).ret

\* C24: a rejected placement mutates nothing - the live bombs, the bomb id
\* counter, the turn index, the guards, the targets and the game state are
\* after the click what they were before it.
RejectedPlacementMutatesNothing ==
    [][(last'.op = "click" /\ last'.ret = "rejected")
          => UNCHANGED <<bombs, bombIdCounter, turnIndex, guards, targets, gameState>>]_vars

PlacementRejectedWithBombsLive ==
    /\ last.op = "click" /\ last.ret = "rejected"
    /\ Len(bombs) > 0
    /\ bombIdCounter > Len(bombs)

\* the rotation 3 -> 1 -> 2 -> 3
Rotated(timer) == IF timer = 3 THEN 1 ELSE timer + 1

-----------------------------------------------------------------------------
(* Guard memory *)

\* the age, at the turn just resolved, of the memory guard i entered it with
MemoryAge(i) == turnIndex - turnLog.memoryBefore[i].turnIndex

Remembered(i) == turnLog.memoryBefore[i] # Null

\* C26: in a resolved turn a guard that heard nothing pursues its memory
\* position if and only if it entered the turn with a memory of age at most
\* memoryTTL: it then targets the remembered tile and proposes the next
\* step towards it, and otherwise it has no target and proposes its own
\* tile.
MemoryPursuedWhileFresh ==
    TurnResolved =>
        \A i \in GuardIx : turnLog.chosen[i] = Null =>
            IF Remembered(i) /\ MemoryAge(i) <= memoryTTL
            THEN /\ guards[i].targetPos = turnLog.memoryBefore[i].pos
                 /\ turnLog.proposals[i].destination
                      = nextStep(turnLog.startPos[i], turnLog.memoryBefore[i].pos)
            ELSE /\ guards[i].targetPos = Null
                 /\ turnLog.proposals[i].destination = turnLog.startPos[i]

\* a memory one turn past memoryTTL: the guard held its position
ExpiredMemoryNotPursued ==
    /\ TurnResolved
    /\ \E i \in GuardIx :
         /\ turnLog.chosen[i] = Null
         /\ Remembered(i)
         /\ MemoryAge(i) = memoryTTL + 1
         /\ turnLog.memoryBefore[i].pos # turnLog.startPos[i]
         /\ guards[i].pos = turnLog.startPos[i]
         /\ guards[i].targetPos = Null

\* a memory of age memoryTTL exactly: the guard stepped towards it
FreshMemoryPursued ==
    /\ TurnResolved
    /\ \E i \in GuardIx :
         /\ turnLog.chosen[i] = Null
         /\ Remembered(i)
         /\ MemoryAge(i) = memoryTTL
         /\ guards[i].pos # turnLog.startPos[i]
         /\ RefDist(guards[i].pos, turnLog.memoryBefore[i].pos)
              < RefDist(turnLog.startPos[i], turnLog.memoryBefore[i].pos)

\* the memory guard i carries into the memory update: picking a target
\* earlier in the turn has cleared it
MemoryAfterSelection(i) ==
    IF turnLog.chosen[i] # Null THEN Null ELSE turnLog.memoryBefore[i]

\* the detonations of the turn guard i hears from where it stands after
\* the movement
HeardDetonations(i) ==
    {e.pos : e \in {s \in Range(turnLog.explodingSources) :
                      RefWithin(guards[i].pos, s.pos, guards[i].hearingRadius)}}

\* p comes before q for a guard at c: nearer, then row-major
NearerRowMajor(c, p, q) ==
    \/ RefDist(c, p) < RefDist(c, q)
    \/ RefDist(c, p) = RefDist(c, q) /\ p.y < q.y
    \/ RefDist(c, p) = RefDist(c, q) /\ p.y = q.y /\ p.x <= q.x

\* C27: after a resolved turn the memory of a guard that hears, from its
\* position after the movement, at least one detonation of the turn is the
\* tile of the nearest such detonation (ties row-major) stamped with the
\* current turn; the memory of a guard that hears none is cleared if its
\* age exceeds memoryTTL and is otherwise what it was.
MemoryUpdate ==
    TurnResolved =>
        \A i \in GuardIx :
            IF HeardDetonations(i) # {}
            THEN /\ guards[i].memory # Null
                 /\ guards[i].memory.turnIndex = turnIndex
                 /\ guards[i].memory.pos \in HeardDetonations(i)
                 /\ \A q \in HeardDetonations(i) :
                        NearerRowMajor(guards[i].pos, guards[i].memory.pos, q)
            ELSE IF MemoryAfterSelection(i) # Null
                    /\ turnIndex - MemoryAfterSelection(i).turnIndex > memoryTTL
            THEN guards[i].memory = Null
            ELSE guards[i].memory = MemoryAfterSelection(i)

\* a guard hears two detonations equally near and remembers the row-major
\* first
MemoryOfRowMajorFirst ==
    /\ TurnResolved
    /\ \E i \in GuardIx :
         /\ \E p, q \in HeardDetonations(i) :
              /\ p # q
              /\ RefDist(guards[i].pos, p) = RefDist(guards[i].pos, q)
              /\ guards[i].memory.pos = p

\* a detonation out of earshot from where the guard started is remembered
\* because the guard walked into earshot
MemoryHeardOnlyAfterMove ==
    /\ TurnResolved
    /\ \E i \in GuardIx :
         /\ guards[i].pos # turnLog.startPos[i]
         /\ guards[i].memory # Null
         /\ guards[i].memory.turnIndex = turnIndex
         /\ ~RefWithin(turnLog.startPos[i], guards[i].memory.pos, guards[i].hearingRadius)

\* a stale memory is cleared at the end of the turn
StaleMemoryCleared ==
    /\ TurnResolved
    /\ \E i \in GuardIx :
         /\ HeardDetonations(i) = {}
         /\ MemoryAfterSelection(i) # Null
         /\ turnIndex - MemoryAfterSelection(i).turnIndex > memoryTTL
         /\ guards[i].memory = Null

-----------------------------------------------------------------------------
(* Blast resolution and the guards' movement *)

\* guard i stood in the blast of the turn before it moved / stands in it
\* after it moved
InBlastBefore(i) == turnLog.startPos[i] \in turnLog.blast

InBlastAfter(i) == guards[i].pos \in turnLog.blast

\* C28: blast resolution uses the guards' positions after the movement - a
\* resolved turn ends Lost exactly when some guard stands on a blast tile of
\* a detonating bomb after it moved, so a guard that walked into the blast
\* loses the game and a guard that walked out of it does not.
BlastUsesPositionsAfterMovement ==
    TurnResolved =>
        /\ (gameState = LOST) <=> (\E i \in GuardIx : InBlastAfter(i))
        /\ turnLog.anyGuardKilled <=> (\E i \in GuardIx : InBlastAfter(i))

GuardWalkedIntoBlast ==
    /\ TurnResolved
    /\ \A i \in GuardIx : ~InBlastBefore(i)
    /\ \E i \in GuardIx : InBlastAfter(i)
    /\ gameState = LOST

GuardWalkedOutOfBlast ==
    /\ TurnResolved
    /\ \E i \in GuardIx : InBlastBefore(i)
    /\ \A i \in GuardIx : ~InBlastAfter(i)
    /\ gameState # LOST

-----------------------------------------------------------------------------
(* Targets *)

DestroyedTargetOutlivesLaterBlast ==
    /\ TurnResolved
    /\ turnLog.blast # {}
    /\ \E t, u \in 1..Len(targets) :
         /\ targets[t].destroyed
         /\ targets[t].pos \notin turnLog.blast
         /\ ~targets[u].destroyed

-----------------------------------------------------------------------------
(* Determinism *)

\* the level state the turn just resolved started from
StateBeforeTurn ==
    levelState(turnLog.bombsBefore, turnLog.startPos, turnLog.memoryBefore,
               turnLog.targetsBefore, turnIndex - 1, last.pre)

\* the level state now
StateNow ==
    levelState(bombs, [i \in 1..Len(guards) |-> guards[i].pos],
               [i \in 1..Len(guards) |-> guards[i].memory],
               targets, turnIndex, gameState)

\* the second run has just resolved a turn from the level state the recorded
\* turn of the first run started from
SecondRunRepeatsTurn ==
    /\ call # Null
    /\ call.run = 2
    /\ TurnResolved
    /\ StateBeforeTurn = call.before

-----------------------------------------------------------------------------
(* Guards: memory, movement and terrain *)

\* C34: picking an audible source clears the memory - after a resolved turn
\* a guard that picked a source in it and hears no detonation of the turn
\* from where it stands after the movement has no memory, whatever memory
\* it entered the turn with.
SelectionClearsMemory ==
    TurnResolved =>
        \A i \in GuardIx :
            (turnLog.chosen[i] # Null /\ HeardDetonations(i) = {})
                => guards[i].memory = Null

\* a guard that remembered a detonation picked a source and lost the memory
MemoryClearedBySelection ==
    /\ TurnResolved
    /\ \E i \in GuardIx :
         /\ Remembered(i)
         /\ turnLog.chosen[i] # Null
         /\ HeardDetonations(i) = {}
         /\ guards[i].memory = Null

\* guard i had nothing to pursue in the turn just resolved: no source picked
\* and no memory of age at most memoryTTL
NothingToPursue(i) ==
    /\ turnLog.chosen[i] = Null
    /\ ~(Remembered(i) /\ MemoryAge(i) <= memoryTTL)

\* C35: in a resolved turn every guard ends on the tile it started from or
\* on one of its four neighbours, and a guard with no audible source and no
\* unexpired memory ends where it started.
OneStepPerTurn ==
    TurnResolved =>
        \A i \in GuardIx :
            /\ Abs(guards[i].pos.x - turnLog.startPos[i].x)
                 + Abs(guards[i].pos.y - turnLog.startPos[i].y) <= 1
            /\ NothingToPursue(i) => guards[i].pos = turnLog.startPos[i]

\* one guard stepped towards a source two or more tiles away while another
\* guard, with nothing to pursue, stayed
OneGuardSteppedOtherStayed ==
    /\ TurnResolved
    /\ \E i, j \in GuardIx :
         /\ turnLog.chosen[i] # Null
         /\ RefDist(turnLog.startPos[i], turnLog.chosen[i].pos) >= 2
         /\ guards[i].pos # turnLog.startPos[i]
         /\ NothingToPursue(j)
         /\ guards[j].pos = turnLog.startPos[j]

\* breadth-first distance over Floor tiles that keeps off the blocked tiles
RECURSIVE RefBfsAvoiding(_, _, _, _, _)
RefBfsAvoiding(frontier, seen, goal, depth, blocked) ==
    IF goal \in frontier THEN depth
    ELSE IF frontier = {} THEN Unreachable
    ELSE LET next == (UNION {RefAdjacent(c) : c \in frontier} \ seen) \ blocked
         IN RefBfsAvoiding(next, seen \cup next, goal, depth + 1, blocked)

\* the tiles of the targets that were undestroyed when the turn began
TargetTilesBefore ==
    {turnLog.targetsBefore[t].pos :
        t \in {u \in 1..Len(turnLog.targetsBefore) : ~turnLog.targetsBefore[u].destroyed}}

\* C36: the tile of an undestroyed target is not traversable for guards - no
\* guard stands on the tile of an undestroyed target, and a source a guard
\* picked in a resolved turn is within its hearing radius along a path that
\* keeps off the tiles of the undestroyed targets.
TargetTilesNotTraversable ==
    /\ \A i \in GuardIx : \A t \in 1..Len(targets) :
         ~targets[t].destroyed => guards[i].pos # targets[t].pos
    /\ TurnResolved =>
         \A i \in GuardIx :
            turnLog.chosen[i] # Null =>
               RefBfsAvoiding({turnLog.startPos[i]}, {turnLog.startPos[i]},
                              turnLog.chosen[i].pos, 0, TargetTilesBefore)
                  <= guards[i].hearingRadius

\* a guard stands on the tile of an undestroyed target
GuardOnUndestroyedTarget ==
    \E i \in GuardIx : \E t \in 1..Len(targets) :
        ~targets[t].destroyed /\ guards[i].pos = targets[t].pos

-----------------------------------------------------------------------------
(* Loading a level *)

\* loadLevel has been called on the descriptor in call
LevelLoadCalled == call # Null /\ call.op = "loadLevel"

\* some guard or target of the descriptor is off the Floor
DescriptorOffFloor ==
    \/ \E i \in 1..Len(call.data.guards) :
          Vec(call.data.guards[i].x, call.data.guards[i].y) \notin RefFloor
    \/ \E i \in 1..Len(call.data.targets) :
          Vec(call.data.targets[i].x, call.data.targets[i].y) \notin RefFloor

\* C31: loadLevel fails with a validation error and leaves no level loaded
\* when a guard or a target of the descriptor is on a tile that is not
\* Floor (Wall, Void or out of bounds).
LoadRejectsOffFloor ==
    (LevelLoadCalled /\ DescriptorOffFloor) =>
        /\ call.ret = "error"
        /\ guards = <<>>
        /\ targets = <<>>

\* C37: loadLevel gives a guard the hearing radius its descriptor states,
\* for every stated value from 0 up, and the configured default only to a
\* guard that states none.
StatedHearingRadiusKept ==
    LevelLoadCalled =>
        /\ Len(guards) = Len(call.data.guards)
        /\ \A i \in 1..Len(call.data.guards) :
             guards[i].hearingRadius =
                IF call.data.guards[i].hearingRadius = undefinedRadius
                THEN defaultHearingRadius
                ELSE call.data.guards[i].hearingRadius

-----------------------------------------------------------------------------
(* Undo *)

\* C33: undo works after resolved turns: an undo pressed after a resolved
\* turn restores the bombs, the guards' positions and memories, the targets'
\* destroyed flags, the turn index and the game state to their values before
\* that turn.
UndoRestoresStateBeforeTurn ==
    [][(last.op = "endTurn" /\ last.ret = "resolved" /\ last'.op = "undo") =>
          StateNow' = StateBeforeTurn]_vars

-----------------------------------------------------------------------------
(* Memory invariant *)

\* the tiles of the bombs that detonated in the turn just resolved
DetonatedTiles == {e.pos : e \in Range(turnLog.explodingSources)}

\* C38: after every resolved turn each guard's memory is absent or has an
\* age turnIndex - memory.turnIndex between 0 and memoryTTL and the tile of
\* a bomb that detonated at turn memory.turnIndex: a memory stamped with the
\* turn just resolved holds the tile of one of its detonations, and an older
\* one is the memory the guard entered the turn with.
MemoryWithinTTLOfDetonation ==
    /\ \A i \in GuardIx : guards[i].memory # Null =>
          /\ 0 <= turnIndex - guards[i].memory.turnIndex
          /\ turnIndex - guards[i].memory.turnIndex <= memoryTTL
    /\ TurnResolved =>
          \A i \in GuardIx : guards[i].memory # Null =>
              IF guards[i].memory.turnIndex = turnIndex
              THEN guards[i].memory.pos \in DetonatedTiles
              ELSE /\ Remembered(i)
                   /\ guards[i].memory = turnLog.memoryBefore[i]

\* after a resolved turn a guard keeps a memory of age memoryTTL of an
\* earlier detonation while another remembers a detonation of this turn
MemoryAtFullAge ==
    /\ TurnResolved
    /\ \E i \in GuardIx :
         /\ guards[i].memory # Null
         /\ turnIndex - guards[i].memory.turnIndex = memoryTTL
         /\ guards[i].memory.pos # guards[i].pos
    /\ \E j \in GuardIx :
         /\ guards[j].memory # Null
         /\ guards[j].memory.turnIndex = turnIndex

-----------------------------------------------------------------------------
(* Progress of a lone guard *)

\* the level has a single guard and in the turn just resolved it pursued a
\* tile: an audible source or an unexpired memory
LoneGuardPursues ==
    /\ TurnResolved
    /\ Len(guards) = 1
    /\ guards[1].targetPos # Null

\* C39: in a level with a single guard, a turn in which the guard pursues a
\* tile at path distance d > 0 leaves it at path distance exactly d - 1 from
\* that tile, and a guard already on the pursued tile stays on it; the
\* pursued tile is always reachable.
LoneGuardProgress ==
    LoneGuardPursues =>
        /\ RefDist(turnLog.startPos[1], guards[1].targetPos) # Unreachable
        /\ IF RefDist(turnLog.startPos[1], guards[1].targetPos) > 0
           THEN RefDist(guards[1].pos, guards[1].targetPos)
                    = RefDist(turnLog.startPos[1], guards[1].targetPos) - 1
           ELSE guards[1].pos = turnLog.startPos[1]

\* the lone guard pursued its memory from two or more steps away and is now
\* one step nearer
LoneGuardNearerToMemory ==
    /\ LoneGuardPursues
    /\ turnLog.chosen[1] = Null
    /\ RefDist(turnLog.startPos[1], guards[1].targetPos) >= 2
    /\ guards[1].pos # turnLog.startPos[1]

\* the lone guard pursued the tile it stands on and stayed
LoneGuardStaysOnPursuedTile ==
    /\ LoneGuardPursues
    /\ guards[1].targetPos = turnLog.startPos[1]

-----------------------------------------------------------------------------
(* The level editor *)

\* the tile of the editor's grid an entity stands on
EntityTile(ent) == editor.grid[ent.y + 1][ent.x + 1]

\* C40: in the level editor, after any sequence of paint operations with
\* any tools from a fresh grid, every guard and every target stands on a
\* Floor tile (validateLevel reports none off the floor), no two guards
\* share a tile and no two targets share a tile.
PaintKeepsEntitiesOnFloor ==
    editor # Null =>
        /\ \A i \in 1..Len(editor.guards) : EntityTile(editor.guards[i]) = FLOOR
        /\ \A i \in 1..Len(editor.targets) : EntityTile(editor.targets[i]) = FLOOR
        /\ validateLevel(editor) \subseteq {"no target"}
        /\ \A i, j \in 1..Len(editor.guards) :
              (editor.guards[i].x = editor.guards[j].x
                 /\ editor.guards[i].y = editor.guards[j].y) => i = j
        /\ \A i, j \in 1..Len(editor.targets) :
              (editor.targets[i].x = editor.targets[j].x
                 /\ editor.targets[i].y = editor.targets[j].y) => i = j

\* a guard was painted on the tile of an earlier guard, which it replaced,
\* next to a tile holding a guard and a target
GuardRepaintedOnGuard ==
    /\ editor # Null
    /\ last.op = "paint" /\ last.ret = "painted"
    /\ editor.currentTool = "guard"
    /\ Len(editor.guards) = 1
    /\ editor.guardIdCounter = 2
    /\ editor.guards[1].id = 1
    /\ Len(editor.targets) = 1

\* the guards of a level as the set of their tiles and hearing radii
GuardSet(gs) == {<<gs[i].x, gs[i].y, gs[i].hearingRadius>> : i \in 1..Len(gs)}

\* the targets of a level as the set of their tiles
TargetSet(ts) == {<<ts[i].x, ts[i].y>> : i \in 1..Len(ts)}

\* importLevel has just read the exported level back, and every guard of
\* the exported level had a hearing radius of 0 or more
ImportedExport ==
    /\ editor # Null
    /\ last.op = "importLevel" /\ last.ret = "imported"
    /\ \A i \in 1..Len(call.exported.guards) : call.exported.guards[i].hearingRadius >= 0

\* C32: round trip: exporting a level from the editor and importing the
\* exported JSON reproduces an identical grid, an identical guard set (x, y
\* and hearingRadius, for every hearing radius of 0 or more) and an
\* identical target set.
ExportImportRoundTrip ==
    ImportedExport =>
        /\ editor.grid = call.exported.grid
        /\ GuardSet(editor.guards) = GuardSet(call.exported.guards)
        /\ TargetSet(editor.targets) = TargetSet(call.exported.targets)

=============================================================================
